---- MODULE Spec2Model ----
(***************************************************************************)
(* Solar-prototype: irradiance (Lambert cosine law), panel orientation,    *)
(* multi-sample shadow analysis and the panel placement handlers.          *)
(*                                                                         *)
(* Numbers are exact rationals [n, d] (d > 0, lowest terms); the IEEE      *)
(* values NaN and +/-Infinity that JavaScript division produces are        *)
(* [0, 0] and [+/-1, 0].  Vectors are integer triples over a common        *)
(* denominator, [x, y, z, d], in lowest terms.                             *)
(***************************************************************************)
EXTENDS Integers, Sequences, FiniteSets, TLC

VARIABLES
  irrCall,        \* one call of calcIrradiance: arguments and result
  shCall,         \* one call into shadowAnalysis.js: arguments and result
  orCall,         \* one call of createPanelMesh or calcPanelIrradianceFromOrientation
  scene,          \* ray-cast geometry of the 3D scene (three.js side)
  sunVec,         \* setupPanelPlacement's sunVec argument (closure)
  roofMeshes,     \* setupPanelPlacement's roofMeshes argument
  panelConfig,    \* the panelConfig singleton read by the click handler
  placedPanels,   \* placement.js placedPanels
  panelMeshes,    \* placement.js panelMeshes (each mesh with its userData)
  placingPanel,   \* placement.js placingPanel
  consoleLog,     \* last "Panel n: ..." line written by addPanelToScene
  sidebar,        \* the cards rendered into #panel-list
  selectedPanelIndex, \* placement.js selectedPanelIndex (0-based, -1: none)
  currentSun,     \* the sun direction in force: setup's sunVec, then the
                  \* newSunVec of the latest updatePanelIrradiance call
  sunCall,        \* one call of getSunPosition: arguments and result
  bldCall,        \* one call of parseBuildings: argument and result
  fetchCall,      \* one call of fetchOSM: arguments, locals, position, outcome
  dirCall,        \* initScene's sun direction: azimuth, elevation, vector
  page            \* scene/initScene.js: module-level panel lists, current scene

\* the variables of the modules outside the 3D scene
auxVars == <<sunCall, bldCall, fetchCall, dirCall, page>>

vars == <<irrCall, shCall, orCall, scene, sunVec, roofMeshes, panelConfig,
          placedPanels, panelMeshes, placingPanel, consoleLog, sidebar,
          selectedPanelIndex, currentSun, auxVars>>

uiVars == <<sunVec, roofMeshes, panelConfig, placedPanels, panelMeshes,
            placingPanel, consoleLog, sidebar, selectedPanelIndex, currentSun>>

sceneVars == <<irrCall, shCall, orCall, scene, uiVars>>

----------------------------------------------------------------------------
(* Bounds of the model *)

MaxPanels == 2          \* panels placed at one time
MaxListLen == 2         \* length of a buildingMeshes argument
MaxSamplePoints == 5    \* largest samplePoints argument
MaxEndpoints == 2       \* length of the longest apiUrls argument
MaxRetries == 2         \* largest maxRetries argument
MaxInits == 2           \* invocations of initScene after the first

----------------------------------------------------------------------------
(* Exact arithmetic *)

Abs(i) == IF i < 0 THEN -i ELSE i

Sign(i) == IF i < 0 THEN -1 ELSE IF i > 0 THEN 1 ELSE 0

RECURSIVE GCD(_, _)
GCD(a, b) == IF b = 0 THEN a ELSE GCD(b, a % b)

\* the JavaScript number n/d
Lowest(n, d, g) == [n |-> (Sign(d) * n) \div g, d |-> Abs(d) \div g]

Rat(n, d) ==
  IF d = 0 THEN [n |-> Sign(n), d |-> 0] ELSE Lowest(n, d, GCD(Abs(n), Abs(d)))

NaN == [n |-> 0, d |-> 0]
Zero == [n |-> 0, d |-> 1]
One == [n |-> 1, d |-> 1]

IsNaN(a) == a.n = 0 /\ a.d = 0
IsFinite(a) == a.d > 0

\* a < b, a <= b, a === b on JavaScript numbers (false when either is NaN)
\* (the common factor g of the denominators is divided out before the
\* numbers are multiplied, which keeps the intermediate integers small)
LtOver(a, b, g) == a.n * (b.d \div g) < b.n * (a.d \div g)

RLt(a, b) ==
  /\ ~IsNaN(a) /\ ~IsNaN(b)
  /\ IF a.d = 0 /\ b.d = 0 THEN a.n < b.n
     ELSE IF a.d = 0 THEN a.n < 0
     ELSE IF b.d = 0 THEN b.n > 0
     ELSE LtOver(a, b, GCD(a.d, b.d))

REq(a, b) == ~IsNaN(a) /\ ~IsNaN(b) /\ a = b

RLe(a, b) == RLt(a, b) \/ REq(a, b)

MulOver(a, b, g, h) ==
  Rat((a.n \div g) * (b.n \div h), (a.d \div h) * (b.d \div g))

RMul(a, b) ==
  IF IsNaN(a) \/ IsNaN(b) THEN NaN
  ELSE IF a.d = 0 \/ b.d = 0 THEN Rat(Sign(a.n) * Sign(b.n), 0)
  ELSE MulOver(a, b, GCD(Abs(a.n), b.d), GCD(Abs(b.n), a.d))

SubOver(a, b, g) ==
  Rat(a.n * (b.d \div g) - b.n * (a.d \div g), (a.d \div g) * b.d)

RSub(a, b) ==
  IF IsNaN(a) \/ IsNaN(b) THEN NaN
  ELSE IF a.d = 0 /\ b.d = 0 THEN (IF a.n = b.n THEN NaN ELSE a)
  ELSE IF a.d = 0 THEN a
  ELSE IF b.d = 0 THEN Rat(-b.n, 0)
  ELSE SubOver(a, b, GCD(a.d, b.d))

\* a / b with IEEE semantics: 0/0 is NaN, x/0 is +/-Infinity
RDiv(a, b) ==
  IF IsNaN(a) \/ IsNaN(b) THEN NaN
  ELSE IF a.d = 0 /\ b.d = 0 THEN NaN
  ELSE IF a.d = 0 THEN Rat(a.n * (IF b.n < 0 THEN -1 ELSE 1), 0)
  ELSE IF b.d = 0 THEN Zero
  ELSE IF b.n = 0 THEN Rat(a.n, 0)
  ELSE RMul(a, [n |-> Sign(b.n) * b.d, d |-> Abs(b.n)])

\* Math.max / Math.min: NaN if either argument is NaN
MathMax(a, b) == IF IsNaN(a) \/ IsNaN(b) THEN NaN ELSE IF RLt(a, b) THEN b ELSE a
MathMin(a, b) == IF IsNaN(a) \/ IsNaN(b) THEN NaN ELSE IF RLt(b, a) THEN b ELSE a

----------------------------------------------------------------------------
(* THREE.Vector3 *)

VecLowest(x, y, z, d, g) ==
  [x |-> (Sign(d) * x) \div g, y |-> (Sign(d) * y) \div g,
   z |-> (Sign(d) * z) \div g, d |-> Abs(d) \div g]

Vec(x, y, z, d) == VecLowest(x, y, z, d, GCD(GCD(GCD(Abs(x), Abs(y)), Abs(z)), Abs(d)))

\* Vector3.dot
Dot(u, v) == Rat(u.x * v.x + u.y * v.y + u.z * v.z, u.d * v.d)

\* Vector3.normalize: divideScalar(length() || 1); the vectors of the model
\* have a rational length
ISqrt(n) == CHOOSE r \in 0..n : r * r = n

LengthSq(v) == v.x * v.x + v.y * v.y + v.z * v.z

Normalize(v) == IF LengthSq(v) = 0 THEN v ELSE Vec(v.x, v.y, v.z, ISqrt(LengthSq(v)))

(* Math.cos and Math.sin of an angle in degrees, as [c, s] over 5.  The    *)
(* angles of the model are q*90 + r with r in {0, 37, 53}, where 37 and 53 *)
(* stand for atan(3/4) = 36.87 and atan(4/3) = 53.13 degrees.              *)
CosSin5(deg) ==
  LET a == ((deg % 360) + 360) % 360
      q == a \div 90
      r == a % 90
      b == IF r = 0 THEN <<5, 0>> ELSE IF r = 37 THEN <<4, 3>> ELSE <<3, 4>>
  IN  IF q = 0 THEN b
      ELSE IF q = 1 THEN <<-b[2], b[1]>>
      ELSE IF q = 2 THEN <<-b[1], -b[2]>>
      ELSE <<b[2], -b[1]>>

\* 3x3 rotation matrices, integer entries over the denominator d
RECURSIVE GCDOfSet(_, _)
GCDOfSet(S, acc) ==
  IF S = {} THEN acc
  ELSE GCDOfSet(S \ {CHOOSE x \in S : TRUE}, GCD(acc, CHOOSE x \in S : TRUE))

MatLowest(rows, d, g) ==
  [m |-> [i \in 1..3 |-> [j \in 1..3 |-> (Sign(d) * rows[i][j]) \div g]],
   d |-> Abs(d) \div g]

Mat(rows, d) ==
  MatLowest(rows, d, GCDOfSet({ Abs(rows[i][j]) : i \in 1..3, j \in 1..3 }, Abs(d)))

Identity3 == Mat(<<<<1, 0, 0>>, <<0, 1, 0>>, <<0, 0, 1>>>>, 1)

\* rotation by deg about the X axis / the Z axis
RotXOf(cs) == Mat(<<<<5, 0, 0>>, <<0, cs[1], -cs[2]>>, <<0, cs[2], cs[1]>>>>, 5)
RotX(deg) == RotXOf(CosSin5(deg))

RotZOf(cs) == Mat(<<<<cs[1], -cs[2], 0>>, <<cs[2], cs[1], 0>>, <<0, 0, 5>>>>, 5)
RotZ(deg) == RotZOf(CosSin5(deg))

MatMul(A, B) ==
  Mat([i \in 1..3 |-> [j \in 1..3 |->
         A.m[i][1] * B.m[1][j] + A.m[i][2] * B.m[2][j] + A.m[i][3] * B.m[3][j]]],
      A.d * B.d)

\* the rotation part of a matrix applied to a vector
MatVec(A, v) ==
  Vec(A.m[1][1] * v.x + A.m[1][2] * v.y + A.m[1][3] * v.z,
      A.m[2][1] * v.x + A.m[2][2] * v.y + A.m[2][3] * v.z,
      A.m[3][1] * v.x + A.m[3][2] * v.y + A.m[3][3] * v.z,
      A.d * v.d)

\* Vector3.applyAxisAngle about the X axis / the Z axis
ApplyAxisAngleX(v, deg) == MatVec(RotX(deg), v)
ApplyAxisAngleZ(v, deg) == MatVec(RotZ(deg), v)

\* Object3D.rotateX / rotateZ: quaternion.multiply(q), a rotation about the
\* object's own axis, composed on the right of the current rotation
RotateX(rot, deg) == MatMul(rot, RotX(deg))
RotateZ(rot, deg) == MatMul(rot, RotZ(deg))

\* Vector3.transformDirection(matrixWorld): rotate, then normalize
TransformDirection(v, rot) == Normalize(MatVec(rot, v))

----------------------------------------------------------------------------
(* solar/irradiance.js *)

calcIrradiance_noFloor(sunDir, surfaceNormal) ==
  MathMin(One, Dot(sunDir, surfaceNormal))

\* Math.max(0, Math.min(1, sunDir.dot(surfaceNormal)))
calcIrradiance(sunDir, surfaceNormal) ==
  MathMax(Zero, MathMin(One, Dot(sunDir, surfaceNormal)))

\* calcPanelIrradianceFromOrientation(tilt, azimuth, sunVec): its own copy of
\* the two applyAxisAngle calls, then calcIrradiance
OrientationNormal(tilt, azimuth) ==
  Normalize(ApplyAxisAngleZ(ApplyAxisAngleX(Vec(0, 0, 1, 1), -tilt), 90 - azimuth))

calcPanelIrradianceFromOrientation(tilt, azimuth, sun) ==
  calcIrradiance(sun, OrientationNormal(tilt, azimuth))

----------------------------------------------------------------------------
(* panels/panelModel.js *)

NoMesh == "null"

\* normal = (0, 0, 1); applyAxisAngle(X, -tiltRad); applyAxisAngle(Z,
\* threeJsAzRad) with threeJsAz = 90 - azimuth; normalize()
calculatePanelNormal_axesSwapped(tilt, azimuth) ==
  Normalize(ApplyAxisAngleX(ApplyAxisAngleZ(Vec(0, 0, 1, 1), -tilt), 90 - azimuth))

calculatePanelNormal(tilt, azimuth) ==
  Normalize(ApplyAxisAngleZ(ApplyAxisAngleX(Vec(0, 0, 1, 1), -tilt), 90 - azimuth))

\* the rotation createPanelMesh gives the mesh: rotateX(-tilt), rotateZ(90 - azimuth)
PanelRotation(tilt, azimuth) ==
  RotateZ(RotateX(Identity3, -tilt), 90 - azimuth)

\* createPanelMesh(position, config); id is the identity of the new object,
\* cfg has every field (the click handler and restorePanels pass complete
\* configurations).  Box geometries only: 'rectangular' and 'square'.
MathMaxInt(a, b) == IF a > b THEN a ELSE b

PanelGeometry(cfg) ==
  IF cfg.shape = "square"
  THEN [x |-> MathMaxInt(cfg.width, cfg.height),
        y |-> MathMaxInt(cfg.width, cfg.height), z |-> cfg.thickness]
  ELSE [x |-> cfg.width, y |-> cfg.height, z |-> cfg.thickness]

createPanelMesh(id, position, cfg) ==
      [id |-> id,
       position |-> position,
       geometry |-> PanelGeometry(cfg),   \* centimetres; metres are /100
       rotation |-> PanelRotation(cfg.tilt, cfg.azimuth),
       userData |-> [normal |-> calculatePanelNormal(cfg.tilt, cfg.azimuth),
                     tilt |-> cfg.tilt,
                     azimuth |-> cfg.azimuth,
                     roofMesh |-> NoMesh,
                     evaluated |-> FALSE,  \* irradiance, shadowFactor set
                     shadowFactor |-> Zero,
                     inShadow |-> FALSE,
                     irradiance |-> Zero,
                     worldNormal |-> Vec(0, 0, 0, 1),
                     evalSun |-> Vec(0, 0, 0, 1)]]  \* sun of the last evaluation

\* localUp.transformDirection(panel.matrixWorld).normalize()
WorldNormal(panel) == Normalize(TransformDirection(Vec(0, 0, 1, 1), panel.rotation))

----------------------------------------------------------------------------
(* solar/shadowAnalysis.js *)

(* The scene the rays are cast in.  scene[mesh] tells where a ray from a   *)
(* sample of a panel towards the sun meets that mesh: dists are the hit    *)
(* distances, mask the samples whose ray meets it, and lowOnly meshes are  *)
(* met only by rays towards a sun lower than atan(4/3) above the horizon.  *)
Covers(mask, idx) ==
  \/ mask = "all"
  \/ mask = "odd" /\ idx % 2 = 1
  \/ mask = "first" /\ idx = 1
  \/ mask = "rest" /\ idx # 1

LowSun(sun) == 5 * sun.z < 4 * sun.d

PointIsNumber(point) ==
  ~IsNaN(point.local.x) /\ ~IsNaN(point.local.y) /\ ~IsNaN(point.local.z)

\* Mesh.raycast for one object: the distances of the hits, none for a ray
\* whose origin has a NaN coordinate
CellHits(c, point, sun) ==
  IF /\ PointIsNumber(point)
     /\ Covers(c.mask, point.idx)
     /\ (c.lowOnly => LowSun(sun))
  THEN c.dists ELSE {}

RayHits(point, sun, mesh) ==
  IF mesh \notin DOMAIN scene THEN {} ELSE CellHits(scene[mesh], point, sun)

\* ascending sort by distance, as Raycaster.intersectObjects returns the hits
RECURSIVE InsertHit(_, _)
InsertHit(h, sorted) ==
  IF sorted = <<>> THEN <<h>>
  ELSE IF RLt(h.distance, Head(sorted).distance) THEN <<h>> \o sorted
  ELSE <<Head(sorted)>> \o InsertHit(h, Tail(sorted))

MinDist(ds) == CHOOSE x \in ds : \A y \in ds : RLe(x, y)

\* the hits of one object merged into the sorted hits of the others
RECURSIVE InsertHits(_, _, _)
InsertHits(ds, object, sorted) ==
  IF ds = {} THEN sorted
  ELSE InsertHits(ds \ {MinDist(ds)}, object,
                  InsertHit([distance |-> MinDist(ds), object |-> object], sorted))

RECURSIVE intersectObjects(_, _, _)
intersectObjects(point, sun, objects) ==
  IF objects = <<>> THEN <<>>
  ELSE InsertHits(RayHits(point, sun, Head(objects)), Head(objects),
                  intersectObjects(point, sun, Tail(objects)))

MapMesh(buildingMeshes) == [i \in 1..Len(buildingMeshes) |-> buildingMeshes[i].mesh]

ShadowEpsilon == Rat(1, 2)
DefaultMaxDistance == Rat(1000, 1)

FirstHitShadows_anyHit(intersects, maxDistance) ==
  \E i \in 1..Len(intersects) :
    /\ RLt(ShadowEpsilon, intersects[i].distance)
    /\ RLt(intersects[i].distance, maxDistance)

\* "if (intersects.length > 0) { firstIntersection = intersects[0]; ... }"
FirstHitShadows(intersects, maxDistance) ==
  IF Len(intersects) > 0
  THEN /\ RLt(ShadowEpsilon, intersects[1].distance)
       /\ RLt(intersects[1].distance, maxDistance)
  ELSE FALSE

isPointInShadow(point, sun, buildingMeshes, maxDistance) ==
  FirstHitShadows(intersectObjects(point, sun, MapMesh(buildingMeshes)), maxDistance)

calculateShadowFactor(panelPosition, sun, buildingMeshes, maxDistance) ==
  LET inShadow == isPointInShadow(panelPosition, sun, buildingMeshes, maxDistance)
  IN  IF inShadow THEN Zero ELSE One

\* new THREE.Box3().setFromObject(panelMesh).getSize(): the extent of the
\* world-axis-aligned box around the rotated box geometry, in metres
BoxExtent(R, g, i) ==
  Rat(Abs(R.m[i][1]) * g.x + Abs(R.m[i][2]) * g.y + Abs(R.m[i][3]) * g.z, R.d * 100)

BoxSize(panelMesh) ==
  [x |-> BoxExtent(panelMesh.rotation, panelMesh.geometry, 1),
   y |-> BoxExtent(panelMesh.rotation, panelMesh.geometry, 2),
   z |-> BoxExtent(panelMesh.rotation, panelMesh.geometry, 3)]

\* Math.ceil(Math.sqrt(samplePoints)); NaN for a negative argument
GridSize(samplePoints) ==
  IF samplePoints < 0 THEN NaN
  ELSE Rat(CHOOSE g \in 0..samplePoints :
             g * g >= samplePoints /\ \A h \in 0..(g - 1) : h * h < samplePoints, 1)

\* the values i = 0, 1, ... of a loop "for (i = 0; i < gridSize; i++)"
LoopCount(gridSize) == IF IsFinite(gridSize) /\ gridSize.n > 0 THEN gridSize.n ELSE 0

RNeg(a) == RSub(Zero, a)

\* samplePoints === 4: the points (+/-halfX, +/-halfY, offsetZ)
QuadSamples(halfX, halfY, offsetZ) ==
  << [x |-> RNeg(halfX), y |-> RNeg(halfY), z |-> offsetZ],
     [x |-> halfX, y |-> RNeg(halfY), z |-> offsetZ],
     [x |-> RNeg(halfX), y |-> halfY, z |-> offsetZ],
     [x |-> halfX, y |-> halfY, z |-> offsetZ] >>

\* (i / (gridSize - 1) - 0.5) * extent * 0.8
GridCoord(i, gridSize, extent) ==
  RMul(RMul(RSub(RDiv(Rat(i, 1), RSub(gridSize, One)), Rat(1, 2)), extent),
       Rat(8, 10))

\* the two nested loops over i and j, n iterations each
GridSamples(size, gridSize, n, offsetZ) ==
  [k \in 1..(n * n) |->
     [x |-> GridCoord((k - 1) \div n, gridSize, size.x),
      y |-> GridCoord((k - 1) % n, gridSize, size.y),
      z |-> offsetZ]]

LocalSamplesAt_noCentre(size, samplePoints, offsetZ) ==
  IF samplePoints = 1 \/ samplePoints = 4
  THEN QuadSamples(RMul(size.x, Rat(4, 10)), RMul(size.y, Rat(4, 10)), offsetZ)
  ELSE GridSamples(size, GridSize(samplePoints),
                   LoopCount(GridSize(samplePoints)), offsetZ)

LocalSamplesAt(size, samplePoints, offsetZ) ==
  IF samplePoints = 1 THEN <<[x |-> Zero, y |-> Zero, z |-> offsetZ]>>
  ELSE IF samplePoints = 4
  THEN QuadSamples(RMul(size.x, Rat(4, 10)), RMul(size.y, Rat(4, 10)), offsetZ)
  ELSE GridSamples(size, GridSize(samplePoints),
                   LoopCount(GridSize(samplePoints)), offsetZ)

LocalSamples(size, samplePoints) ==
  LocalSamplesAt(size, samplePoints, RMul(size.z, Rat(6, 10)))

\* buildingMeshes.filter(r => r.mesh !== excludeMesh), or the list itself
\* when excludeMesh is null
MeshesToCheck_unfiltered(buildingMeshes, excludeMesh) == buildingMeshes

MeshesToCheck(buildingMeshes, excludeMesh) ==
  IF excludeMesh # NoMesh
  THEN SelectSeq(buildingMeshes, LAMBDA r : r.mesh # excludeMesh)
  ELSE buildingMeshes

\* the buildingMeshes array once the call has returned: filter() and map()
\* build new arrays, nothing writes to the argument
BuildingMeshesAfter_filteredInPlace(buildingMeshes, excludeMesh) ==
  MeshesToCheck(buildingMeshes, excludeMesh)

BuildingMeshesAfter(buildingMeshes, excludeMesh) == buildingMeshes

\* the samples in world space, each with its position in the list
Indexed(localSamples) ==
  [k \in 1..Len(localSamples) |-> [idx |-> k, local |-> localSamples[k]]]

Samples(panelMesh, samplePoints) ==
  Indexed(LocalSamples(BoxSize(panelMesh), samplePoints))

ShadowedCount(samples, sun, buildingMeshes, excludeMesh) ==
  Cardinality({ k \in 1..Len(samples) :
     isPointInShadow(samples[k], sun,
                     MeshesToCheck(buildingMeshes, excludeMesh),
                     DefaultMaxDistance) })

\* "return 1 - (shadowedCount / samples.length)"
LitFraction(shadowedCount, count) ==
  RSub(One, RDiv(Rat(shadowedCount, 1), Rat(count, 1)))

SampleFactor_perRequested(samples, sun, buildingMeshes, samplePoints, excludeMesh) ==
  LitFraction(ShadowedCount(samples, sun, buildingMeshes, excludeMesh), samplePoints)

SampleFactor(samples, sun, buildingMeshes, samplePoints, excludeMesh) ==
  LitFraction(ShadowedCount(samples, sun, buildingMeshes, excludeMesh), Len(samples))

calculatePanelShadowFactor(panelMesh, sun, buildingMeshes, samplePoints, excludeMesh) ==
  SampleFactor(Samples(panelMesh, samplePoints), sun, buildingMeshes, samplePoints,
               excludeMesh)

----------------------------------------------------------------------------
(* panels/panelInfo.js *)

\* the status badge of createPanelCard; shadowFactor is read as
\* "panel.userData.shadowFactor || 1", irradiance as "... || 0"
CardShadowFactor(panel) ==
  IF ~panel.userData.evaluated \/ IsNaN(panel.userData.shadowFactor)
     \/ panel.userData.shadowFactor = Zero
  THEN One ELSE panel.userData.shadowFactor

CardIrradiance(panel) ==
  IF ~panel.userData.evaluated \/ IsNaN(panel.userData.irradiance)
  THEN Zero ELSE panel.userData.irradiance

CardShadowStatus_inclusive(shadowFactor) ==
  IF RLt(shadowFactor, Rat(1, 2)) THEN "shadowed"
  ELSE IF RLe(shadowFactor, One) THEN "partial"
  ELSE "clear"

CardShadowStatus(shadowFactor) ==
  IF RLt(shadowFactor, Rat(1, 2)) THEN "shadowed"
  ELSE IF RLt(shadowFactor, One) THEN "partial"
  ELSE "clear"

createPanelCard(panel, panelNumber) ==
  [panelIndex |-> panelNumber - 1,
   mesh |-> panel.id,
   irradiance |-> CardIrradiance(panel),
   shadowFactor |-> CardShadowFactor(panel),
   shadowStatus |-> CardShadowStatus(CardShadowFactor(panel))]

updatePanelInfoSidebar(meshes) ==
  [i \in 1..Len(meshes) |-> createPanelCard(meshes[i], i)]

----------------------------------------------------------------------------
(* panels/placement.js *)

NoSun == Vec(0, 0, 0, 1)     \* setupPanelPlacement called without a sunVec

\* the userData written by one evaluation: shadowFactor, inShadow =
\* shadowFactor < 0.5 and irradiance = calcIrradiance(sun, worldNormal) *
\* shadowFactor (evalSun records the sun the evaluation used)
Evaluated(userData, sun, clearSky, shadowFactor) ==
  [userData EXCEPT !.evaluated = TRUE,
     !.shadowFactor = shadowFactor,
     !.inShadow = RLt(shadowFactor, Rat(1, 2)),
     !.irradiance = RMul(clearSky, shadowFactor),
     !.evalSun = sun]

\* the evaluation shared by addPanelToScene, the click handler and
\* updatePanelIrradiance: four samples, excludeRoof left out
Evaluate_noExclude(panel, sun, excludeRoof) ==
  Evaluated(panel.userData, sun, calcIrradiance(sun, WorldNormal(panel)),
            calculatePanelShadowFactor(panel, sun, roofMeshes, 4, NoMesh))

Evaluate(panel, sun, excludeRoof) ==
  Evaluated(panel.userData, sun, calcIrradiance(sun, WorldNormal(panel)),
            calculatePanelShadowFactor(panel, sun, roofMeshes, 4, excludeRoof))

\* the shadowStatus of the "Panel n: ..." console line of addPanelToScene
LogShadowStatus(shadowFactor) ==
  IF RLt(shadowFactor, Rat(1, 2)) THEN "SHADOWED"
  ELSE IF RLt(shadowFactor, One) THEN "PARTIAL"
  ELSE "CLEAR"

\* the identity of a newly created mesh object: one no live mesh has.
\* Identities are only ever compared for equality, so the live meshes are
\* numbered in list order (Renumber, after a removal)
FreshId == Len(panelMeshes) + 1

Renumber(meshes) == [i \in 1..Len(meshes) |-> [meshes[i] EXCEPT !.id = i]]

WithRoof(panel, panelRoof) == [panel EXCEPT !.userData.roofMesh = panelRoof]

\* "if (sunVec) { ... }" of addPanelToScene
AddEvaluated(panel, panelRoof) ==
  IF sunVec # NoSun
  THEN [panel EXCEPT !.userData =
          [Evaluate(panel, sunVec, panelRoof) EXCEPT
             !.worldNormal = WorldNormal(panel)]]
  ELSE panel

\* addPanelToScene(position, config, panelRoof): the mesh pushed on panelMeshes
addPanelToScene(position, config, panelRoof) ==
  AddEvaluated(WithRoof(createPanelMesh(FreshId, position, config), panelRoof),
               panelRoof)

\* click on #place-panel
ClickPlacePanel ==
  /\ placingPanel' = ~placingPanel
  /\ UNCHANGED <<auxVars, irrCall, shCall, orCall, scene, sunVec, roofMeshes, panelConfig,
                 placedPanels, panelMeshes, consoleLog, sidebar,
                 selectedPanelIndex, currentSun>>

\* the sliders: panelConfig.setOrientation(tilt, azimuth)
SetOrientation(tilt, azimuth) ==
  /\ panelConfig' = [panelConfig EXCEPT !.tilt = tilt, !.azimuth = azimuth]
  /\ UNCHANGED <<auxVars, irrCall, shCall, orCall, scene, sunVec, roofMeshes,
                 placedPanels, panelMeshes, placingPanel, consoleLog, sidebar,
                 selectedPanelIndex, currentSun>>

\* the configuration the click handler reads from panelConfig
ClickConfig ==
  [width |-> panelConfig.width, height |-> panelConfig.height,
   thickness |-> panelConfig.thickness, shape |-> panelConfig.shape,
   tilt |-> panelConfig.tilt, azimuth |-> panelConfig.azimuth]

\* the click handler after addPanelToScene returned: roofMesh stored, the
\* panel evaluated again "if (sunVec)"
Recalculated(added, roofMesh) ==
  IF sunVec # NoSun
  THEN [added EXCEPT !.userData = Evaluate(WithRoof(added, roofMesh), sunVec, roofMesh)]
  ELSE WithRoof(added, roofMesh)

PlaceOn(hit, config, roofMesh, added) ==
  /\ placedPanels' = Append(placedPanels,
       [position |-> hit, roofIdx |-> hit - 1, config |-> config])
  /\ panelMeshes' = Append(panelMeshes, Recalculated(added, roofMesh))
  /\ consoleLog' =
       IF sunVec # NoSun
       THEN [shadowFactor |-> added.userData.shadowFactor,
             shadowStatus |-> LogShadowStatus(added.userData.shadowFactor)]
       ELSE consoleLog
  /\ sidebar' = updatePanelInfoSidebar(panelMeshes')

\* pointerdown, button 0; hit is the index of the roof under the pointer,
\* 0 when the pick ray meets no roof
PointerDownLeft(hit) ==
  /\ (placingPanel /\ hit > 0) => Len(panelMeshes) < MaxPanels
  /\ IF placingPanel /\ hit > 0
     THEN PlaceOn(hit, ClickConfig, roofMeshes[hit].mesh,
                  addPanelToScene(hit, ClickConfig, roofMeshes[hit].mesh))
     ELSE UNCHANGED <<placedPanels, panelMeshes, consoleLog, sidebar>>
  /\ UNCHANGED <<auxVars, irrCall, shCall, orCall, scene, sunVec, roofMeshes, panelConfig,
                 placingPanel, selectedPanelIndex, currentSun>>

\* seq.splice(i, 1)
RemoveAt_toEnd(seq, i) == SubSeq(seq, 1, i - 1)

RemoveAt(seq, i) == SubSeq(seq, 1, i - 1) \o SubSeq(seq, i + 1, Len(seq))

\* pointerdown, button 2; hit is the index in panelMeshes of the panel under
\* the pointer, 0 when the pick ray meets no panel
IndexOf(seq, e) ==
  CHOOSE i \in 1..Len(seq) : seq[i] = e /\ \A j \in 1..(i - 1) : seq[j] # e

\* "if (selectedPanelIndex === idx) { selectedPanelIndex = -1; ... } else if
\* (selectedPanelIndex > idx) { selectedPanelIndex--; }", idx 0-based
AfterRemoval_noShift(selected, idx) ==
  IF selected = idx THEN -1 ELSE selected

AfterRemoval(selected, idx) ==
  IF selected = idx THEN -1
  ELSE IF selected > idx THEN selected - 1
  ELSE selected

RemovePanelAt_firstRecord(idx) ==
  /\ panelMeshes' = Renumber(RemoveAt(panelMeshes, idx))
  /\ placedPanels' = RemoveAt(placedPanels, 1)
  /\ selectedPanelIndex' = AfterRemoval(selectedPanelIndex, idx - 1)
  /\ sidebar' = updatePanelInfoSidebar(panelMeshes')

RemovePanelAt(idx) ==
  /\ panelMeshes' = Renumber(RemoveAt(panelMeshes, idx))
  /\ placedPanels' = RemoveAt(placedPanels, idx)
  /\ selectedPanelIndex' = AfterRemoval(selectedPanelIndex, idx - 1)
  /\ sidebar' = updatePanelInfoSidebar(panelMeshes')

PointerDownRight(hit) ==
  /\ IF hit > 0
     THEN RemovePanelAt(IndexOf(panelMeshes, panelMeshes[hit]))
     ELSE UNCHANGED <<placedPanels, panelMeshes, sidebar, selectedPanelIndex>>
  /\ UNCHANGED <<auxVars, irrCall, shCall, orCall, scene, sunVec, roofMeshes, panelConfig,
                 placingPanel, consoleLog, currentSun>>

\* click on #remove-panels
ClickRemovePanels ==
  /\ panelMeshes' = <<>>
  /\ placedPanels' = <<>>
  /\ selectedPanelIndex' = -1
  /\ sidebar' = updatePanelInfoSidebar(panelMeshes')
  /\ UNCHANGED <<auxVars, irrCall, shCall, orCall, scene, sunVec, roofMeshes, panelConfig,
                 placingPanel, consoleLog, currentSun>>

\* updatePanelIrradiance(newSunVec)
updatePanelIrradiance(newSunVec) ==
  /\ panelMeshes' = [i \in 1..Len(panelMeshes) |->
       [panelMeshes[i] EXCEPT !.userData =
          Evaluate(panelMeshes[i], newSunVec, panelMeshes[i].userData.roofMesh)]]
  /\ sidebar' = updatePanelInfoSidebar(panelMeshes')
  /\ currentSun' = newSunVec
  /\ UNCHANGED <<auxVars, irrCall, shCall, orCall, scene, sunVec, roofMeshes, panelConfig,
                 placedPanels, placingPanel, consoleLog, selectedPanelIndex>>

\* highlightPanel(panelIndex), called with the index of the sidebar card
\* clicked: nothing for an index outside panelMeshes, else the previous
\* highlight is cleared and the index stored (the meshes of the model carry
\* no material)
highlightPanel(panelIndex) ==
  /\ selectedPanelIndex' =
       IF panelIndex < 0 \/ panelIndex >= Len(panelMeshes)
       THEN selectedPanelIndex
       ELSE panelIndex
  /\ UNCHANGED <<auxVars, irrCall, shCall, orCall, scene, sunVec, roofMeshes, panelConfig,
                 placedPanels, panelMeshes, placingPanel, consoleLog, sidebar,
                 currentSun>>

\* clearPanelHighlight()
clearPanelHighlight ==
  /\ selectedPanelIndex' = -1
  /\ UNCHANGED <<auxVars, irrCall, shCall, orCall, scene, sunVec, roofMeshes, panelConfig,
                 placedPanels, panelMeshes, placingPanel, consoleLog, sidebar,
                 currentSun>>

----------------------------------------------------------------------------
(* Input vectors: exact unit vectors (Pythagorean), the zero vector and    *)
(* two vectors that are not of unit length.                                *)

UnitVecs ==
  { Vec(0, 0, 1, 1), Vec(0, 0, -1, 1), Vec(0, -1, 0, 1), Vec(1, 0, 0, 1),
    Vec(0, 3, 4, 5), Vec(0, -3, 4, 5), Vec(3, 0, 4, 5), Vec(0, -4, 3, 5),
    Vec(0, -3, -4, 5), Vec(1, 2, 2, 3), Vec(-2, 1, 2, 3) }

InVecs == UnitVecs \cup { Vec(0, 0, 0, 1), Vec(0, 0, 2, 1), Vec(0, -3, 4, 1) }

IsUnit(v) == v.x * v.x + v.y * v.y + v.z * v.z = v.d * v.d

IrrIdle == [sunDir |-> Vec(0, 0, 1, 1), surfaceNormal |-> Vec(0, 0, 1, 1),
            done |-> FALSE, result |-> Zero]

\* a caller invokes calcIrradiance(sunDir, surfaceNormal)
CallCalcIrradiance ==
  /\ ~irrCall.done
  /\ irrCall' = [irrCall EXCEPT !.done = TRUE,
                   !.result = calcIrradiance(irrCall.sunDir, irrCall.surfaceNormal)]
  /\ UNCHANGED <<auxVars, shCall, orCall, scene, uiVars>>

----------------------------------------------------------------------------
(* Inputs *)

Meshes == {"b1", "b2"}

Suns == { Vec(0, 0, 1, 1), Vec(0, -4, 3, 5) }

\* a sun on the southern horizon (elevation 0)
HorizonSun == Vec(0, -1, 0, 1)

\* scenes: a mesh may be missed, met within the 0.5 threshold, met exactly
\* at a threshold, met by every ray or by some, or met beyond maxDistance
Cell(dists, mask, lowOnly) == [dists |-> dists, mask |-> mask, lowOnly |-> lowOnly]

ProbeCells ==
  { Cell({}, "all", FALSE),
    Cell({Rat(3, 10)}, "all", FALSE),
    Cell({Rat(1, 2)}, "all", FALSE),
    Cell({Rat(6, 10), Rat(70, 1)}, "all", FALSE),
    Cell({Rat(1000, 1)}, "all", FALSE),
    Cell({Rat(999, 1)}, "odd", FALSE),
    Cell({Rat(60, 1)}, "first", FALSE),
    Cell({Rat(60, 1)}, "all", TRUE) }

\* the scenes of the placement model: b1 a tower met by every ray towards a
\* low sun and b2 met within the threshold; b1 met by the first sample's ray
\* and b2 by every other sample's; b1 met by all but the first and b2 by
\* every ray; nothing met at all
UIScenes ==
  { [b1 |-> Cell({Rat(60, 1)}, "all", TRUE), b2 |-> Cell({Rat(3, 10)}, "all", FALSE)],
    [b1 |-> Cell({Rat(60, 1)}, "first", FALSE), b2 |-> Cell({Rat(60, 1)}, "odd", FALSE)],
    [b1 |-> Cell({Rat(60, 1)}, "rest", FALSE), b2 |-> Cell({Rat(60, 1)}, "all", FALSE)],
    [b1 |-> Cell({}, "all", FALSE), b2 |-> Cell({}, "all", FALSE)] }

Tilts == {0, 37, 53, 90}
Azimuths == {0, 37, 90, 127, 180, 217, 270, 307}

\* sun directions for the orientation calls: overhead, low in the south,
\* east, west and north, and below the horizon
OrientSuns ==
  { Vec(0, 0, 1, 1), Vec(0, -4, 3, 5), Vec(4, 0, 3, 5), Vec(-4, 0, 3, 5),
    Vec(0, 4, 3, 5), Vec(0, -3, -4, 5) }

UIOrientations == { <<0, 180>>, <<37, 90>> }

DefaultConfig ==
  [width |-> 200, height |-> 100, thickness |-> 5, shape |-> "rectangular",
   tilt |-> 0, azimuth |-> 180]

\* buildingMeshes arguments: lists of records {mesh} of length <= MaxListLen
RECURSIVE ListsUpTo(_)
ListsUpTo(n) ==
  IF n = 0 THEN { <<>> }
  ELSE ListsUpTo(n - 1)
         \cup { Append(l, [mesh |-> m]) : l \in ListsUpTo(n - 1), m \in Meshes }

ProbePanels ==
  { createPanelMesh(1, 1, [DefaultConfig EXCEPT !.tilt = 37]),
    createPanelMesh(1, 1, [DefaultConfig EXCEPT
                             !.width = 0, !.height = 0, !.thickness = 0]) }

ProbePoint == [idx |-> 1, local |-> [x |-> Zero, y |-> Zero, z |-> Zero]]

ShIdle ==
  [fn |-> "none", panelMesh |-> createPanelMesh(1, 1, DefaultConfig),
   sunVec |-> Vec(0, 0, 1, 1), buildingMeshes |-> <<>>, samplePoints |-> 4,
   excludeMesh |-> NoMesh, maxDistance |-> DefaultMaxDistance,
   done |-> FALSE, result |-> Zero, inShadow |-> FALSE, localSamples |-> <<>>]

ShInputs ==
  { [ShIdle EXCEPT !.fn = "calculatePanelShadowFactor", !.panelMesh = p,
       !.sunVec = s, !.buildingMeshes = l, !.samplePoints = n, !.excludeMesh = e] :
      p \in ProbePanels, s \in Suns, l \in ListsUpTo(MaxListLen),
      n \in 0..MaxSamplePoints, e \in Meshes \cup {NoMesh} }
  \cup
  { [ShIdle EXCEPT !.fn = f, !.sunVec = s, !.buildingMeshes = l, !.maxDistance = d] :
      f \in {"isPointInShadow", "calculateShadowFactor"}, s \in Suns,
      l \in ListsUpTo(MaxListLen), d \in {DefaultMaxDistance, Rat(60, 1)} }

OrIdle == [fn |-> "createPanelMesh", cfg |-> DefaultConfig,
           sunVec |-> Vec(0, 0, 1, 1), done |-> FALSE,
           mesh |-> createPanelMesh(1, 1, DefaultConfig),
           worldNormal |-> Vec(0, 0, 0, 1), irradiance |-> Zero]

UIIdle ==
  /\ sunVec = NoSun
  /\ roofMeshes = <<>>
  /\ panelConfig = DefaultConfig
  /\ placedPanels = <<>>
  /\ panelMeshes = <<>>
  /\ placingPanel = FALSE
  /\ consoleLog = [shadowFactor |-> One, shadowStatus |-> "none"]
  /\ sidebar = <<>>
  /\ selectedPanelIndex = -1
  /\ currentSun = sunVec

----------------------------------------------------------------------------
(* Calls into solar/shadowAnalysis.js *)

CallCalculatePanelShadowFactor ==
  /\ ~shCall.done /\ shCall.fn = "calculatePanelShadowFactor"
  /\ shCall' = [shCall EXCEPT !.done = TRUE,
       !.result = calculatePanelShadowFactor(shCall.panelMesh, shCall.sunVec,
                    shCall.buildingMeshes, shCall.samplePoints, shCall.excludeMesh),
       !.localSamples = LocalSamples(BoxSize(shCall.panelMesh), shCall.samplePoints),
       !.buildingMeshes = BuildingMeshesAfter(shCall.buildingMeshes,
                                              shCall.excludeMesh)]
  /\ UNCHANGED <<auxVars, irrCall, orCall, scene, uiVars>>

CallCalculateShadowFactor ==
  /\ ~shCall.done /\ shCall.fn = "calculateShadowFactor"
  /\ shCall' = [shCall EXCEPT !.done = TRUE,
       !.result = calculateShadowFactor(ProbePoint, shCall.sunVec,
                    shCall.buildingMeshes, shCall.maxDistance),
       !.buildingMeshes = BuildingMeshesAfter(shCall.buildingMeshes, NoMesh)]
  /\ UNCHANGED <<auxVars, irrCall, orCall, scene, uiVars>>

CallIsPointInShadow ==
  /\ ~shCall.done /\ shCall.fn = "isPointInShadow"
  /\ shCall' = [shCall EXCEPT !.done = TRUE,
       !.inShadow = isPointInShadow(ProbePoint, shCall.sunVec,
                      shCall.buildingMeshes, shCall.maxDistance),
       !.buildingMeshes = BuildingMeshesAfter(shCall.buildingMeshes, NoMesh)]
  /\ UNCHANGED <<auxVars, irrCall, orCall, scene, uiVars>>

\* createPanelMesh(position, cfg), then the world normal as addPanelToScene
\* derives it from the mesh
CallCreatePanelMesh ==
  /\ ~orCall.done /\ orCall.fn = "createPanelMesh"
  /\ orCall' = [orCall EXCEPT !.done = TRUE,
                  !.mesh = createPanelMesh(1, 1, orCall.cfg),
                  !.worldNormal = WorldNormal(createPanelMesh(1, 1, orCall.cfg))]
  /\ UNCHANGED <<auxVars, irrCall, shCall, scene, uiVars>>

\* calcPanelIrradianceFromOrientation(tilt, azimuth, sunVec)
CallCalcPanelIrradianceFromOrientation ==
  /\ ~orCall.done /\ orCall.fn = "calcPanelIrradianceFromOrientation"
  /\ orCall' = [orCall EXCEPT !.done = TRUE,
                  !.irradiance = calcPanelIrradianceFromOrientation(
                     orCall.cfg.tilt, orCall.cfg.azimuth, orCall.sunVec)]
  /\ UNCHANGED <<auxVars, irrCall, shCall, scene, uiVars>>

----------------------------------------------------------------------------
(* debug/draw2D.js: getSunPosition(date, lat, lon) *)

(* Angles are kept by their cosine and sine.  The declination decl and the  *)
(* hour angle ha, which lines 58-77 derive from the date and the longitude  *)
(* through truncated Fourier series, are taken as given: decl is 0 or       *)
(* +/-asin(7/25) = 16.26 degrees, ha a multiple of 90 degrees plus 0,       *)
(* atan(3/4) or atan(4/3), between -360 and 360 degrees.                    *)

RAdd(a, b) == RSub(a, RSub(Zero, b))

\* Math.cos / Math.sin of deg * rad
CosDeg(deg) == Rat(CosSin5(deg)[1], 5)
SinDeg(deg) == Rat(CosSin5(deg)[2], 5)

\* N1 - (N2 * N3) + day - 30, the day of the year
DayOfYear(year, month, day) ==
  (275 * month) \div 9
    - ((month + 9) \div 12) * (1 + ((year - 4 * (year \div 4) + 2) \div 3))
    + day - 30

\* Math.sin(latRad) * Math.sin(decl) + Math.cos(latRad) * Math.cos(decl) * Math.cos(ha)
CosZenith(lat, decl, ha) ==
  RAdd(RMul(SinDeg(lat), decl.s), RMul(RMul(CosDeg(lat), decl.c), CosDeg(ha)))

\* Math.acos(x): the angle in [0, 180] degrees whose cosine is x, kept as
\* that cosine; NaN for x outside [-1, 1], infinite or NaN
Acos(sign, square) ==
  IF IsFinite(square) /\ RLe(square, One)
  THEN [nan |-> FALSE, cosSign |-> sign, cosSq |-> square]
  ELSE [nan |-> TRUE, cosSign |-> 0, cosSq |-> Zero]

\* elevation = 90 - zenith / rad, zenith = Math.acos(cosZenith): the angle
\* in [-90, 90] degrees whose sine is cosZenith
Elevation(cosZenith) ==
  [nan |-> Acos(Sign(cosZenith.n), RMul(cosZenith, cosZenith)).nan,
   sin |-> cosZenith]

\* Math.sin(decl) - Math.sin(latRad) * Math.cos(zenith)
AzimuthNumerator(lat, decl, cosZenith) ==
  RSub(decl.s, RMul(SinDeg(lat), cosZenith))

\* the square of Math.cos(latRad) * Math.sin(zenith); both factors are >= 0
\* for a latitude in [-90, 90] and a zenith in [0, 180]
AzimuthDenominatorSq(lat, cosZenith) ==
  RMul(RMul(CosDeg(lat), CosDeg(lat)), RSub(One, RMul(cosZenith, cosZenith)))

\* Math.acos(numerator / denominator): x / 0 is +/-Infinity or NaN
AcosOfQuotient(numerator, denominatorSq) ==
  Acos(Sign(numerator.n), RDiv(RMul(numerator, numerator), denominatorSq))

\* "if (ha > 0) azimuth = 360 - azimuth": mirrored azimuths are 360 - acos
Azimuth(acos, ha) ==
  [nan |-> acos.nan, mirrored |-> ha > 0, cosSign |-> acos.cosSign,
   cosSq |-> acos.cosSq]

SunAzimuth(lat, decl, ha, cosZenith) ==
  Azimuth(AcosOfQuotient(AzimuthNumerator(lat, decl, cosZenith),
                         AzimuthDenominatorSq(lat, cosZenith)), ha)

getSunPosition(c) ==
  [c EXCEPT !.done = TRUE,
     !.N = DayOfYear(c.year, c.month, c.day),
     !.elevation = Elevation(CosZenith(c.lat, c.decl, c.ha)),
     !.azimuth = SunAzimuth(c.lat, c.decl, c.ha, CosZenith(c.lat, c.decl, c.ha))]

\* the UTC calendar dates and the angles of the calls
IsLeapYear(y) == (y % 4 = 0 /\ y % 100 # 0) \/ y % 400 = 0

DaysInMonth(y, m) ==
  IF m = 2 THEN (IF IsLeapYear(y) THEN 29 ELSE 28)
  ELSE IF m \in {4, 6, 9, 11} THEN 30 ELSE 31

Years == {1900, 2000, 2023, 2024, 2100}

Latitudes == {-90, -53, -37, 0, 37, 53, 90}

Declinations ==
  { [c |-> One, s |-> Zero], [c |-> Rat(24, 25), s |-> Rat(7, 25)],
    [c |-> Rat(24, 25), s |-> Rat(-7, 25)] }

HourAngles == {-360, -180, -127, -90, -37, 0, 37, 90, 127, 180, 360}

SunIdle ==
  [year |-> 2024, month |-> 1, day |-> 1, lat |-> 37,
   decl |-> [c |-> One, s |-> Zero], ha |-> -90, done |-> FALSE, N |-> 0,
   elevation |-> [nan |-> FALSE, sin |-> Zero],
   azimuth |-> [nan |-> FALSE, mirrored |-> FALSE, cosSign |-> 0, cosSq |-> Zero]]

SunInputs ==
  { [SunIdle EXCEPT !.year = y, !.month = m, !.day = d] :
      y \in Years, m \in 1..12, d \in 1..31 }
  \cup
  { [SunIdle EXCEPT !.lat = l, !.decl = dc, !.ha = h] :
      l \in Latitudes, dc \in Declinations, h \in HourAngles }

ValidDate(c) == c.day <= DaysInMonth(c.year, c.month)

CallGetSunPosition ==
  /\ ~sunCall.done
  /\ sunCall' = getSunPosition(sunCall)
  /\ UNCHANGED <<sceneVars, bldCall, fetchCall, dirCall, page>>

----------------------------------------------------------------------------
(* OSM building parser: parseHeight, parseBuildings *)

FLOOR_HEIGHT == 3
DEFAULT_HEIGHT == 10

\* a tag the element does not carry
NoTag == "<absent>"

\* a tag value that is truthy: present and not the empty string
Truthy(str) == str # NoTag /\ str # ""

\* parseFloat on the tag values of the model: the longest numeric prefix,
\* NaN when there is none
ParseFloat(str) ==
  CASE str = "0" -> Zero
    [] str = "-5" -> Rat(-5, 1)
    [] str = "12.5" -> Rat(25, 2)
    [] str = "10 m" -> Rat(10, 1)
    [] str = "4" -> Rat(4, 1)
    [] OTHER -> NaN

\* parseInt on the tag values of the model: the longest integer prefix
ParseInt(str) ==
  CASE str = "0" -> Zero
    [] str = "-5" -> Rat(-5, 1)
    [] str = "12.5" -> Rat(12, 1)
    [] str = "10 m" -> Rat(10, 1)
    [] str = "4" -> Rat(4, 1)
    [] OTHER -> NaN

\* parseHeight(tags); bheight is the tag "building:height", levels the tag
\* "building:levels"
LevelsHeight(levels) == RMul(levels, Rat(FLOOR_HEIGHT, 1))

parseHeight(tags) ==
  IF Truthy(tags.height) /\ ~IsNaN(ParseFloat(tags.height))
  THEN ParseFloat(tags.height)
  ELSE IF Truthy(tags.bheight) /\ ~IsNaN(ParseFloat(tags.bheight))
  THEN ParseFloat(tags.bheight)
  ELSE IF Truthy(tags.levels) /\ ~IsNaN(ParseInt(tags.levels))
  THEN LevelsHeight(ParseInt(tags.levels))
  ELSE Rat(DEFAULT_HEIGHT, 1)

\* first pass: nodes[el.id] = [el.lon, el.lat]; a later node of the same id
\* replaces an earlier one
RECURSIVE StoreNodes(_, _)
StoreNodes(elements, nodes) ==
  IF elements = <<>> THEN nodes
  ELSE StoreNodes(Tail(elements),
         IF Head(elements).type = "node"
         THEN [id \in DOMAIN nodes \cup {Head(elements).id} |->
                 IF id = Head(elements).id
                 THEN <<Head(elements).lon, Head(elements).lat>> ELSE nodes[id]]
         ELSE nodes)

\* el.nodes.map(id => nodes[id]).filter(Boolean)
RECURSIVE Footprint(_, _)
Footprint(refs, nodes) ==
  IF refs = <<>> THEN <<>>
  ELSE IF Head(refs) \in DOMAIN nodes
  THEN <<nodes[Head(refs)]>> \o Footprint(Tail(refs), nodes)
  ELSE Footprint(Tail(refs), nodes)

IsBuildingWay(el) == el.type = "way" /\ Truthy(el.tags.building)

BuildingOf(el, footprint) ==
  [id |-> el.id, footprint |-> footprint, height |-> parseHeight(el.tags),
   tags |-> el.tags]

\* second pass: the ways tagged building with at least 3 resolved nodes
RECURSIVE ParseWays(_, _)
ParseWays(elements, nodes) ==
  IF elements = <<>> THEN <<>>
  ELSE IF /\ IsBuildingWay(Head(elements))
          /\ Len(Footprint(Head(elements).nodes, nodes)) >= 3
  THEN <<BuildingOf(Head(elements), Footprint(Head(elements).nodes, nodes))>>
         \o ParseWays(Tail(elements), nodes)
  ELSE ParseWays(Tail(elements), nodes)

parseBuildings(osmJson) == ParseWays(osmJson.elements, StoreNodes(osmJson.elements, <<>>))

\* OSM inputs: four nodes, then one way over some of them (9 is the id of a
\* node the response does not hold)
TagValues == {NoTag, "", "0", "-5", "12.5", "10 m", "4", "abc"}

OsmNodes ==
  << [type |-> "node", id |-> 1, lon |-> 0, lat |-> 0],
     [type |-> "node", id |-> 2, lon |-> 1, lat |-> 0],
     [type |-> "node", id |-> 3, lon |-> 1, lat |-> 1],
     [type |-> "node", id |-> 4, lon |-> 0, lat |-> 1] >>

WayRefs == { <<>>, <<1, 2>>, <<1, 2, 9>>, <<1, 2, 3>>, <<1, 9, 2, 3>>, <<1, 2, 3, 4, 1>> }

OsmWay(refs, building, height, bheight, levels) ==
  [type |-> "way", id |-> 100, nodes |-> refs,
   tags |-> [building |-> building, height |-> height, bheight |-> bheight,
             levels |-> levels]]

OsmInputs ==
  { [elements |-> Append(OsmNodes, OsmWay(r, b, h, bh, lv))] :
      r \in WayRefs, b \in {NoTag, "yes"}, h \in TagValues,
      bh \in {NoTag, "0", "12.5", "abc"}, lv \in {NoTag, "0", "-5", "4", "12.5", "abc"} }

BldIdle == [osmJson |-> [elements |-> <<>>], done |-> FALSE, buildings |-> <<>>]

CallParseBuildings ==
  /\ ~bldCall.done
  /\ bldCall' = [bldCall EXCEPT !.done = TRUE,
                   !.buildings = parseBuildings(bldCall.osmJson)]
  /\ UNCHANGED <<sceneVars, sunCall, fetchCall, dirCall, page>>

----------------------------------------------------------------------------
(* osm/fetchOSM.js: fetchOSM *)

\* the body of a response, by what the code asks of it: whether JSON.parse
\* accepts it and what it yields, whether the text includes 'error',
\* 'timeout' or 'rate limit', whether its first 200 characters include
\* 'fetch' or 'network'
NoText == [kind |-> "none", errWords |-> FALSE, netWords |-> FALSE]

Bodies ==
  { [kind |-> "data", errWords |-> FALSE, netWords |-> FALSE],
    [kind |-> "null", errWords |-> FALSE, netWords |-> FALSE] }
  \cup { [kind |-> k, errWords |-> e, netWords |-> w] :
           k \in {"emptyRemark", "notJson"}, e \in BOOLEAN, w \in BOOLEAN }

\* JSON.parse(text) does not throw
ParsesAsJson(text) == text.kind \in {"data", "emptyRemark", "null"}

\* an error on its way to the catch block, by what the block asks of it: its
\* name, and whether its message includes 'fetch', 'network' or 'Failed to
\* fetch'.  origin tells where it was thrown: "fetch" and "body" are failures
\* of the request and of the body read, "status" is the error of line 68,
\* "json" that of line 89, "empty" that of line 79
Thrown(origin, name, netWords) ==
  [origin |-> origin, name |-> name, netWords |-> netWords]

\* what a rejected fetch throws: the abort of line 37, or a network failure
\* (a TypeError whose message depends on the browser)
Rejections ==
  {Thrown("fetch", "AbortError", FALSE)}
  \cup {Thrown("fetch", "TypeError", w) : w \in BOOLEAN}

\* the status of a response: ok, or one of the codes the code tells apart
Statuses == {"ok", "502", "504", "404", "500", "429"}

FetchIdle ==
  [apiUrls |-> 0, maxRetries |-> 0, pc |-> "idle", endpointIndex |-> 0,
   attempt |-> 0, errors |-> <<>>, requests |-> <<>>, text |-> NoText,
   result |-> "pending", error |-> "none", delay |-> 0]

\* line 33: attempt <= maxRetries
AttemptsLeft(attempt, maxRetries) == attempt <= maxRetries

\* lines 116-125
RejectAll(c) == [c EXCEPT !.pc = "rejected", !.result = "allFailed"]

\* lines 109-110
Rethrow(c) == [c EXCEPT !.pc = "rejected", !.result = "other"]

\* line 39: the request goes out and fetchOSM awaits it
IssueFetch(c, e, a) ==
  [c EXCEPT !.pc = "fetch", !.endpointIndex = e, !.attempt = a,
            !.requests = Append(@, e)]

\* the for loop of line 29 at endpoint e, the loop of line 33 at attempt 0
RECURSIVE TryEndpoint(_, _)
TryEndpoint(c, e) ==
  IF e < c.apiUrls
  THEN IF AttemptsLeft(0, c.maxRetries) THEN IssueFetch(c, e, 0)
       ELSE TryEndpoint(c, e + 1)
  ELSE RejectAll(c)

\* break: leave the retry loop, go on with the next endpoint
Break(c) == TryEndpoint(c, c.endpointIndex + 1)

\* continue: attempt++ and the test of line 33
NextAttempt(c) ==
  IF AttemptsLeft(c.attempt + 1, c.maxRetries)
  THEN IssueFetch(c, c.endpointIndex, c.attempt + 1)
  ELSE Break(c)

\* errors.push(...)
Push(c, kind) ==
  [c EXCEPT !.errors = Append(@, [endpoint |-> c.endpointIndex, kind |-> kind])]

\* catch (error): error holds what was thrown (kept here by its origin)
Caught(c, error) == [c EXCEPT !.error = error.origin]

\* line 103: Math.pow(2, attempt) * 1000 milliseconds
BackoffDelay(attempt) == (2 ^ attempt) * 1000

\* lines 91-111: the catch block
Retry(c) ==
  IF c.attempt < c.maxRetries
  THEN [Push(c, "attempt") EXCEPT !.pc = "backoff", !.delay = BackoffDelay(c.attempt)]
  ELSE Break(Push(c, "attempt"))

Catch(c, error) ==
  IF error.name = "AbortError" THEN Break(Push(Caught(c, error), "timeout"))
  ELSE IF error.netWords THEN Retry(Caught(c, error))
  ELSE Rethrow(Caught(c, error))

\* lines 48-71: the response has arrived
OnResponse(c, status) ==
  IF status = "ok" THEN [c EXCEPT !.pc = "text"]
  ELSE IF status \in {"502", "504", "404"} THEN Break(Push(c, "status"))
  ELSE [c EXCEPT !.pc = "errorText"]

\* lines 74-90: the body has been read
\* the inner catch of lines 83-90 takes whatever the inner try throws: the
\* SyntaxError of JSON.parse, the TypeError of reading null.elements, and
\* the 'empty result' error of line 79
OnText_noReturn(c, text) ==
  IF text.errWords THEN Break(Push(c, "text"))
  ELSE Catch(c, Thrown("json", "Error", text.netWords))

OnText(c, text) ==
  IF text.kind = "data" THEN [c EXCEPT !.pc = "resolved", !.result = "data"]
  ELSE IF text.errWords THEN Break(Push(c, "text"))
  ELSE Catch(c, Thrown("json", "Error", text.netWords))

\* fetchOSM(query, apiUrls, maxRetries, timeout) up to its first await
CallFetchOSM ==
  /\ fetchCall.pc = "called"
  /\ fetchCall' = TryEndpoint(fetchCall, 0)
  /\ UNCHANGED <<sceneVars, sunCall, bldCall, dirCall, page>>

\* the awaited fetch settles (the timeout of line 37 rejects it with
\* AbortError)
FetchSettles ==
  /\ fetchCall.pc = "fetch"
  /\ \/ \E error \in Rejections : fetchCall' = Catch(fetchCall, error)
     \/ \E status \in Statuses : fetchCall' = OnResponse(fetchCall, status)
  /\ UNCHANGED <<sceneVars, sunCall, bldCall, dirCall, page>>

\* line 71: await response.text() settles, after clearTimeout(timeoutId)
TextSettles ==
  /\ fetchCall.pc = "text"
  /\ \/ \E text \in Bodies :
          fetchCall' = OnText([fetchCall EXCEPT !.text = text], text)
     \/ \E netWords \in BOOLEAN :
          fetchCall' = Catch(fetchCall, Thrown("body", "TypeError", netWords))
  /\ UNCHANGED <<sceneVars, sunCall, bldCall, dirCall, page>>

\* lines 67-68: the error body is read (a failed read gives ''), and the
\* error thrown holds the status text and the first 100 characters of it
ErrorTextSettles ==
  /\ fetchCall.pc = "errorText"
  /\ \E netWords \in BOOLEAN :
       fetchCall' = Catch(fetchCall, Thrown("status", "Error", netWords))
  /\ UNCHANGED <<sceneVars, sunCall, bldCall, dirCall, page>>

\* line 103: the backoff timer fires
BackoffElapses ==
  /\ fetchCall.pc = "backoff"
  /\ fetchCall' = NextAttempt(fetchCall)
  /\ UNCHANGED <<sceneVars, sunCall, bldCall, dirCall, page>>

----------------------------------------------------------------------------
(* initScene: the sun direction built from azimuth and elevation.  The     *)
(* initScene that calls setupPanelPlacement turns the azimuth into         *)
(* threeJsAzRad = 90 - azimuth; scene/initScene.js into azimuth - 180.     *)

\* (cos(el) * sin(az), cos(el) * cos(az), sin(el)).normalize(), el and az
\* given by their cosine and sine over 5
DirectionOf(el, az) == Normalize(Vec(el[1] * az[2], el[1] * az[1], 5 * el[2], 25))

\* const sunVec = new THREE.Vector3(...).normalize() with threeJsAzRad
SunVecPlacement(azimuth, elevation) ==
  DirectionOf(CosSin5(elevation), CosSin5(90 - azimuth))

\* new THREE.Vector3(sunX, sunY, sunZ).normalize() with azRad
SunVecStandalone(azimuth, elevation) ==
  DirectionOf(CosSin5(elevation), CosSin5(azimuth - 180))

Elevations == {-37, 0, 37, 53, 90}

DirIdle ==
  [build |-> "placement", azimuth |-> 0, elevation |-> 0, done |-> FALSE,
   sunVec |-> Vec(0, 0, 0, 1)]

CallInitSceneSun ==
  /\ ~dirCall.done
  /\ dirCall' = [dirCall EXCEPT !.done = TRUE,
       !.sunVec = IF dirCall.build = "placement"
                  THEN SunVecPlacement(dirCall.azimuth, dirCall.elevation)
                  ELSE SunVecStandalone(dirCall.azimuth, dirCall.elevation)]
  /\ UNCHANGED <<sceneVars, sunCall, bldCall, fetchCall, page>>

----------------------------------------------------------------------------
(* scene/initScene.js: placedPanels and panelMeshes live at module level,  *)
(* the scene, the renderer and placingPanel are made by each initScene().  *)
(* A position is the roof point a pick ray hit; a mesh is kept by its      *)
(* position and by whether it belongs to the scene of the latest           *)
(* initScene() (inScene).                                                  *)

Points == {1, 2}

PageIdle ==
  [placedPanels |-> <<>>, panelMeshes |-> <<>>, placingPanel |-> FALSE,
   inits |-> 0]

\* addPanelMesh(pos): scene.add(panel); panelMeshes.push(panel)
addPanelMesh(meshes, pos) == Append(meshes, [position |-> pos, inScene |-> TRUE])

\* placedPanels.forEach(p => addPanelMesh(p.position))
RECURSIVE RenderPlaced(_, _)
RenderPlaced(meshes, placed) ==
  IF placed = <<>> THEN meshes
  ELSE RenderPlaced(addPanelMesh(meshes, Head(placed).position), Tail(placed))

\* the meshes made for an earlier scene are in no scene the page shows
Orphaned(meshes) == [i \in 1..Len(meshes) |-> [meshes[i] EXCEPT !.inScene = FALSE]]

\* array.splice(idx, 1): nothing goes when idx is past the end
Splice(seq, idx) == IF idx <= Len(seq) THEN RemoveAt(seq, idx) ELSE seq

\* initScene() called again: a new scene and a new placingPanel, the
\* module-level lists as they are, then the loop of line 380
PageInitScene ==
  /\ page.inits >= 1 /\ page.inits <= MaxInits
  /\ page' = [page EXCEPT !.inits = @ + 1, !.placingPanel = FALSE,
       !.panelMeshes = RenderPlaced(Orphaned(page.panelMeshes), page.placedPanels)]
  /\ UNCHANGED <<sceneVars, sunCall, bldCall, fetchCall, dirCall>>

\* click on #place-panel
PageClickPlacePanel ==
  /\ page.inits >= 1
  /\ page' = [page EXCEPT !.placingPanel = ~@]
  /\ UNCHANGED <<sceneVars, sunCall, bldCall, fetchCall, dirCall>>

\* pointerdown, button 0; hit is the roof point under the pointer, 0 when
\* the pick ray meets no roof
PagePointerDownLeft(hit) ==
  /\ page.inits >= 1
  /\ (page.placingPanel /\ hit > 0) => Len(page.placedPanels) < MaxPanels
  /\ page' = IF page.placingPanel /\ hit > 0
             THEN [page EXCEPT
                     !.placedPanels = Append(@, [position |-> hit]),
                     !.panelMeshes = addPanelMesh(@, hit)]
             ELSE page
  /\ UNCHANGED <<sceneVars, sunCall, bldCall, fetchCall, dirCall>>

\* pointerdown, button 2; hit is the index in panelMeshes of the first mesh
\* the pick ray meets (the ray is cast against the whole list), 0 for none
PagePointerDownRight(hit) ==
  /\ page.inits >= 1
  /\ page' = IF hit > 0
             THEN [page EXCEPT
                     !.panelMeshes = RemoveAt(@, IndexOf(@, page.panelMeshes[hit])),
                     !.placedPanels = Splice(@, IndexOf(page.panelMeshes,
                                                        page.panelMeshes[hit]))]
             ELSE page
  /\ UNCHANGED <<sceneVars, sunCall, bldCall, fetchCall, dirCall>>

\* click on #remove-panels
PageClickRemovePanels ==
  /\ page.inits >= 1
  /\ page' = [page EXCEPT !.panelMeshes = <<>>, !.placedPanels = <<>>]
  /\ UNCHANGED <<sceneVars, sunCall, bldCall, fetchCall, dirCall>>

AuxIdle ==
  /\ sunCall = SunIdle /\ bldCall = BldIdle /\ fetchCall = FetchIdle
  /\ dirCall = DirIdle /\ page = PageIdle

----------------------------------------------------------------------------
(* Specifications *)

EmptyScene == [m \in Meshes |-> Cell({}, "all", FALSE)]

\* calcIrradiance on every pair of input vectors
InitIrr ==
  /\ irrCall \in { [IrrIdle EXCEPT !.sunDir = s, !.surfaceNormal = n] :
                     s \in InVecs, n \in InVecs }
  /\ shCall = ShIdle /\ orCall = OrIdle /\ scene = EmptyScene /\ UIIdle
  /\ AuxIdle

NextIrr == CallCalcIrradiance

SpecIrr == InitIrr /\ [][NextIrr]_vars

\* the shadow functions on every input and scene
InitShadow ==
  /\ scene \in [Meshes -> ProbeCells]
  /\ shCall \in ShInputs
  /\ irrCall = IrrIdle /\ orCall = OrIdle /\ UIIdle /\ AuxIdle

NextShadow ==
  \/ CallCalculatePanelShadowFactor
  \/ CallCalculateShadowFactor
  \/ CallIsPointInShadow

SpecShadow == InitShadow /\ [][NextShadow]_vars

\* createPanelMesh on every orientation
InitOrient ==
  /\ orCall \in
       { [OrIdle EXCEPT !.cfg = [DefaultConfig EXCEPT
            !.tilt = t, !.azimuth = a, !.shape = sh]] :
           t \in Tilts, a \in Azimuths, sh \in {"rectangular", "square"} }
       \cup
       { [OrIdle EXCEPT !.fn = "calcPanelIrradianceFromOrientation", !.sunVec = s,
            !.cfg = [DefaultConfig EXCEPT !.tilt = t, !.azimuth = a]] :
           t \in Tilts, a \in Azimuths, s \in OrientSuns }
  /\ irrCall = IrrIdle /\ shCall = ShIdle /\ scene = EmptyScene /\ UIIdle
  /\ AuxIdle

NextOrient ==
  \/ CallCreatePanelMesh
  \/ CallCalcPanelIrradianceFromOrientation

SpecOrient == InitOrient /\ [][NextOrient]_vars

\* getSunPosition on every date and on every latitude, declination and hour
\* angle
InitSun ==
  /\ sunCall \in { c \in SunInputs : ValidDate(c) }
  /\ irrCall = IrrIdle /\ shCall = ShIdle /\ orCall = OrIdle
  /\ scene = EmptyScene /\ UIIdle /\ bldCall = BldIdle
  /\ fetchCall = FetchIdle /\ dirCall = DirIdle /\ page = PageIdle

NextSun == CallGetSunPosition

SpecSun == InitSun /\ [][NextSun]_vars

\* parseBuildings on every OSM input
InitOsm ==
  /\ bldCall \in { [BldIdle EXCEPT !.osmJson = j] : j \in OsmInputs }
  /\ irrCall = IrrIdle /\ shCall = ShIdle /\ orCall = OrIdle
  /\ scene = EmptyScene /\ UIIdle /\ sunCall = SunIdle
  /\ fetchCall = FetchIdle /\ dirCall = DirIdle /\ page = PageIdle

NextOsm == CallParseBuildings

SpecOsm == InitOsm /\ [][NextOsm]_vars

\* fetchOSM on every endpoint list and retry count of the bounds, against
\* every behaviour of the network
InitFetch ==
  /\ fetchCall \in { [FetchIdle EXCEPT !.pc = "called", !.apiUrls = n,
                                       !.maxRetries = r] :
                       n \in 0..MaxEndpoints, r \in 0..MaxRetries }
  /\ irrCall = IrrIdle /\ shCall = ShIdle /\ orCall = OrIdle
  /\ scene = EmptyScene /\ UIIdle /\ sunCall = SunIdle /\ bldCall = BldIdle
  /\ dirCall = DirIdle /\ page = PageIdle

NextFetch ==
  \/ CallFetchOSM
  \/ FetchSettles
  \/ TextSettles
  \/ ErrorTextSettles
  \/ BackoffElapses

SpecFetch == InitFetch /\ [][NextFetch]_vars

\* every fetch settles or is aborted by its timer, and timers fire; the
\* timer of a request is cleared before its body is read, so nothing makes
\* a body read settle
SpecFetchFair ==
  /\ SpecFetch
  /\ WF_vars(CallFetchOSM)
  /\ WF_vars(FetchSettles)
  /\ WF_vars(BackoffElapses)

\* the sun direction of both initScene builds, for every azimuth and
\* elevation of the model
InitDir ==
  /\ dirCall \in { [DirIdle EXCEPT !.build = b, !.azimuth = az, !.elevation = el] :
                     b \in {"placement", "standalone"}, az \in Azimuths,
                     el \in Elevations }
  /\ irrCall = IrrIdle /\ shCall = ShIdle /\ orCall = OrIdle
  /\ scene = EmptyScene /\ UIIdle /\ sunCall = SunIdle /\ bldCall = BldIdle
  /\ fetchCall = FetchIdle /\ page = PageIdle

NextDir == CallInitSceneSun

SpecDir == InitDir /\ [][NextDir]_vars

\* scene/initScene.js after the first initScene(): its handlers, and
\* initScene() called again
InitPage ==
  /\ page = [PageIdle EXCEPT !.inits = 1]
  /\ irrCall = IrrIdle /\ shCall = ShIdle /\ orCall = OrIdle
  /\ scene = EmptyScene /\ UIIdle /\ sunCall = SunIdle /\ bldCall = BldIdle
  /\ fetchCall = FetchIdle /\ dirCall = DirIdle

NextPage ==
  \/ PageInitScene
  \/ PageClickPlacePanel
  \/ \E hit \in {0} \cup Points : PagePointerDownLeft(hit)
  \/ \E hit \in 0..Len(page.panelMeshes) : PagePointerDownRight(hit)
  \/ PageClickRemovePanels

SpecPage == InitPage /\ [][NextPage]_vars

\* the placement handlers, after setupPanelPlacement(scene, camera, renderer,
\* roofMeshes, sunVec) and initScene's restorePanels(), which finds the new
\* placedPanels empty
Init ==
  /\ scene \in UIScenes
  /\ sunVec \in Suns \cup {HorizonSun, NoSun}
  /\ roofMeshes = <<[mesh |-> "b1"], [mesh |-> "b2"]>>
  /\ panelConfig = DefaultConfig
  /\ placedPanels = <<>>
  /\ panelMeshes = <<>>
  /\ placingPanel = FALSE
  /\ consoleLog = [shadowFactor |-> One, shadowStatus |-> "none"]
  /\ sidebar = <<>>
  /\ selectedPanelIndex = -1
  /\ currentSun = sunVec
  /\ irrCall = IrrIdle /\ shCall = ShIdle /\ orCall = OrIdle /\ AuxIdle

Next ==
  \/ ClickPlacePanel
  \/ \E o \in UIOrientations : SetOrientation(o[1], o[2])
  \/ \E hit \in 0..Len(roofMeshes) : PointerDownLeft(hit)
  \/ \E hit \in 0..Len(panelMeshes) : PointerDownRight(hit)
  \/ ClickRemovePanels
  \/ \E s \in Suns : updatePanelIrradiance(s)

Spec == Init /\ [][Next]_vars

\* the handlers together with the selection of a panel from the sidebar
\* (setupSidebarToggle's callback), in the scene where no ray meets a mesh
\* and with a sun given at setup
InitSelect ==
  /\ Init
  /\ scene = EmptyScene
  /\ sunVec \in Suns

NextSelect ==
  \/ Next
  \/ \E panelIndex \in -1..MaxPanels : highlightPanel(panelIndex)
  \/ clearPanelHighlight

SpecSelect == InitSelect /\ [][NextSelect]_vars

----------------------------------------------------------------------------
(* Properties *)

PanelCall == shCall.done /\ shCall.fn = "calculatePanelShadowFactor"

DotNum(u, v) == u.x * v.x + u.y * v.y + u.z * v.z

\* C1: calcIrradiance(sunDir, normal) is clamp(dot(sunDir, normal), 0, 1): it
\* lies in [0,1], is 0 whenever the dot product is <= 0, is the dot product
\* when that lies in [0,1], and is 1 when sunDir equals the unit normal.
C1_IrradianceIsClampedDot ==
  irrCall.done =>
    /\ irrCall.result.d > 0
    /\ 0 <= irrCall.result.n /\ irrCall.result.n <= irrCall.result.d
    /\ DotNum(irrCall.sunDir, irrCall.surfaceNormal) <= 0 => irrCall.result.n = 0
    /\ DotNum(irrCall.sunDir, irrCall.surfaceNormal)
         >= irrCall.sunDir.d * irrCall.surfaceNormal.d
       => irrCall.result.n = irrCall.result.d
    /\ ( /\ DotNum(irrCall.sunDir, irrCall.surfaceNormal) > 0
         /\ DotNum(irrCall.sunDir, irrCall.surfaceNormal)
              < irrCall.sunDir.d * irrCall.surfaceNormal.d )
       => irrCall.result.n * irrCall.sunDir.d * irrCall.surfaceNormal.d
            = DotNum(irrCall.sunDir, irrCall.surfaceNormal) * irrCall.result.d
    /\ (irrCall.sunDir = irrCall.surfaceNormal /\ IsUnit(irrCall.surfaceNormal))
       => irrCall.result = One

\* a call with the sun behind the surface returned 0
C1_Witness ==
  /\ irrCall.done
  /\ DotNum(irrCall.sunDir, irrCall.surfaceNormal) < 0
  /\ IsUnit(irrCall.sunDir) /\ IsUnit(irrCall.surfaceNormal)
  /\ irrCall.result = Zero

\* C2: calculatePanelShadowFactor with an empty occluder list returns exactly
\* 1 for any panel pose, sun direction and sample count.
C2_EmptyOccludersGiveOne ==
  (PanelCall /\ shCall.buildingMeshes = <<>>) => shCall.result = One

\* the number of samples the call found shadowed
CallShadowed ==
  ShadowedCount(Samples(shCall.panelMesh, shCall.samplePoints), shCall.sunVec,
                shCall.buildingMeshes, shCall.excludeMesh)

\* ceil(sqrt(n)) for n >= 1, stated by its defining inequalities
IsCeilSqrt(g, n) == g >= 1 /\ g * g >= n /\ (g - 1) * (g - 1) < n

\* the number of samples generated for a request of n >= 1 samples
IsGenerated(count, n) ==
  IF n = 1 \/ n = 4 THEN count = n
  ELSE \E g \in 1..n : IsCeilSqrt(g, n) /\ count = g * g

\* C3 as stated: for sampleCount >= 1 the result is
\* 1 - shadowedSampleCount / sampleCount, and lies in [0,1].
C3_FactorOverRequestedCount ==
  (PanelCall /\ shCall.samplePoints >= 1) =>
    /\ shCall.result.d > 0
    /\ shCall.result.n * shCall.samplePoints
         = (shCall.samplePoints - CallShadowed) * shCall.result.d
    /\ 0 <= shCall.result.n /\ shCall.result.n <= shCall.result.d

\* C3 amended: for sampleCount >= 1 the result is 1 - shadowedSampleCount /
\* (number of generated sample points), that number being sampleCount for 1
\* and 4 and ceil(sqrt(sampleCount))^2 otherwise, and lies in [0,1].
C3_FactorOverGeneratedCount ==
  (PanelCall /\ shCall.samplePoints >= 1) =>
    \E count \in 1..(shCall.samplePoints * shCall.samplePoints) :
      /\ IsGenerated(count, shCall.samplePoints)
      /\ CallShadowed <= count
      /\ shCall.result.d > 0
      /\ shCall.result.n * count = (count - CallShadowed) * shCall.result.d
      /\ 0 <= shCall.result.n /\ shCall.result.n <= shCall.result.d

\* a request of 2 samples generated a 2 x 2 grid of which 1 was shadowed
C3_Witness ==
  /\ PanelCall /\ shCall.samplePoints = 2
  /\ CallShadowed = 1
  /\ shCall.result = Rat(3, 4)

\* C4: for every sampleCount argument (0 included) and for
\* zero-extent panels the result is a defined number in [0,1], never NaN.
C4_NeverDividesByZero ==
  PanelCall =>
    /\ shCall.result.d > 0
    /\ 0 <= shCall.result.n /\ shCall.result.n <= shCall.result.d

\* C5: with one sample the shadow factor is 0 or 1, from
\* calculatePanelShadowFactor(..., 1, ...) and from calculateShadowFactor.
C5_SingleSampleIsBinary ==
  /\ (PanelCall /\ shCall.samplePoints = 1) => shCall.result \in {Zero, One}
  /\ (shCall.done /\ shCall.fn = "calculateShadowFactor")
       => shCall.result \in {Zero, One}

\* a one-sample call found its sample shadowed although a second mesh is
\* met only by the rays of later samples
C5_Witness ==
  /\ PanelCall /\ shCall.samplePoints = 1
  /\ shCall.result = Zero
  /\ Len(shCall.buildingMeshes) = 2

\* the hit distances of the ray from the probe point over the tested list
ProbeHits ==
  UNION { RayHits(ProbePoint, shCall.sunVec, shCall.buildingMeshes[i].mesh) :
            i \in 1..Len(shCall.buildingMeshes) }

InRange(d, maxDistance) ==
  /\ 2 * d.n > d.d
  /\ d.n * maxDistance.d < maxDistance.n * d.d

Nearest(d, ds) == d \in ds /\ \A e \in ds : d.n * e.d <= e.n * d.d

\* C6: a point is shadowed iff the nearest hit distance d over the tested
\* occluders satisfies 0.5 < d < maxDistance, both strict; farther hits do
\* not count.
C6_ShadowedIffNearestInRange ==
  (shCall.done /\ shCall.fn = "isPointInShadow") =>
    (shCall.inShadow <=>
       \E d \in ProbeHits : Nearest(d, ProbeHits) /\ InRange(d, shCall.maxDistance))

\* the nearest hit is within the 0.5 threshold, a farther occluder lies in
\* range, and the point counts as lit
C6_Witness ==
  /\ shCall.done /\ shCall.fn = "isPointInShadow"
  /\ ~shCall.inShadow
  /\ \E d \in ProbeHits : Nearest(d, ProbeHits) /\ 2 * d.n <= d.d
  /\ \E e \in ProbeHits : InRange(e, shCall.maxDistance)

\* the list without the records whose mesh is e
RECURSIVE Without(_, _)
Without(l, e) ==
  IF l = <<>> THEN <<>>
  ELSE IF Head(l).mesh = e THEN Without(Tail(l), e)
  ELSE <<Head(l)>> \o Without(Tail(l), e)

\* C7: the result with excluded mesh e equals the result for the list
\* without e's records and no exclusion; with four samples, a panel whose
\* only potential occluder is the excluded roof gets factor 1.
C7_ExcludedNeverContributes ==
  PanelCall =>
    /\ shCall.result =
         calculatePanelShadowFactor(shCall.panelMesh, shCall.sunVec,
           Without(shCall.buildingMeshes, shCall.excludeMesh),
           shCall.samplePoints, NoMesh)
    /\ ( /\ shCall.samplePoints = 4
         /\ shCall.excludeMesh # NoMesh
         /\ \A i \in 1..Len(shCall.buildingMeshes) :
              shCall.buildingMeshes[i].mesh = shCall.excludeMesh )
       => shCall.result = One

\* the excluded mesh alone would have shadowed every sample
C7_Witness ==
  /\ PanelCall /\ shCall.samplePoints = 4
  /\ shCall.excludeMesh # NoMesh
  /\ shCall.buildingMeshes = <<[mesh |-> shCall.excludeMesh]>>
  /\ shCall.result = One
  /\ calculatePanelShadowFactor(shCall.panelMesh, shCall.sunVec,
       shCall.buildingMeshes, 4, NoMesh) = Zero

\* the roof panel i was placed on
OwnRoof(i) == roofMeshes[placedPanels[i].roofIdx + 1].mesh

ClearSky(i) == calcIrradiance(panelMeshes[i].userData.evalSun, WorldNormal(panelMeshes[i]))

OwnFactor(i) ==
  calculatePanelShadowFactor(panelMeshes[i], panelMeshes[i].userData.evalSun,
                             roofMeshes, 4, OwnRoof(i))

\* C8: after every evaluation (placement, updatePanelIrradiance) the stored
\* irradiance of a panel is the clear-sky value of its world normal times the
\* four-sample shadow factor with its own roof excluded; it lies in [0,1],
\* does not exceed the clear-sky value and is 0 when the shadow factor is 0.
C8_StoredIrradiance ==
  \A i \in 1..Len(panelMeshes) :
    panelMeshes[i].userData.evaluated =>
      /\ panelMeshes[i].userData.shadowFactor = OwnFactor(i)
      /\ panelMeshes[i].userData.irradiance.d > 0
      /\ panelMeshes[i].userData.irradiance.n * ClearSky(i).d * OwnFactor(i).d
           = ClearSky(i).n * OwnFactor(i).n * panelMeshes[i].userData.irradiance.d
      /\ 0 <= panelMeshes[i].userData.irradiance.n
      /\ panelMeshes[i].userData.irradiance.n <= panelMeshes[i].userData.irradiance.d
      /\ panelMeshes[i].userData.irradiance.n * ClearSky(i).d
           <= ClearSky(i).n * panelMeshes[i].userData.irradiance.d
      /\ OwnFactor(i) = Zero => panelMeshes[i].userData.irradiance = Zero

\* a panel re-evaluated by updatePanelIrradiance under another sun, partly
\* shadowed by the other roof, with its own roof an occluder too
C8_Witness ==
  \E i \in 1..Len(panelMeshes) :
    /\ panelMeshes[i].userData.evaluated
    /\ panelMeshes[i].userData.evalSun # sunVec
    /\ panelMeshes[i].userData.shadowFactor = Rat(3, 4)
    /\ panelMeshes[i].userData.irradiance.n > 0
    /\ calculatePanelShadowFactor(panelMeshes[i], panelMeshes[i].userData.evalSun,
                                  roofMeshes, 4, NoMesh) # Rat(3, 4)

Classification(shadowFactor) ==
  IF 2 * shadowFactor.n < shadowFactor.d THEN "shadowed"
  ELSE IF shadowFactor.n < shadowFactor.d THEN "partial"
  ELSE "clear"

UpperCase(status) ==
  IF status = "shadowed" THEN "SHADOWED"
  ELSE IF status = "partial" THEN "PARTIAL" ELSE "CLEAR"

\* C9: the classification shown for a panel is 'shadowed' iff shadowFactor <
\* 0.5, 'partial' iff 0.5 <= shadowFactor < 1 and 'clear' iff shadowFactor =
\* 1, on its sidebar card and in the placement log.
C9_Classification ==
  /\ \A i \in 1..Len(sidebar) :
       panelMeshes[i].userData.evaluated =>
         sidebar[i].shadowStatus = Classification(panelMeshes[i].userData.shadowFactor)
  /\ consoleLog.shadowStatus # "none" =>
       consoleLog.shadowStatus = UpperCase(Classification(consoleLog.shadowFactor))

\* C10: calculatePanelNormal(tilt, azimuth) equals the world-space normal of
\* the mesh createPanelMesh builds with that tilt and azimuth.
C10_NormalMatchesMesh ==
  orCall.done => orCall.mesh.userData.normal = orCall.worldNormal

OrientCall(fn) == orCall.done /\ orCall.fn = fn

\* the horizontal unit vector along compass bearing azimuth (+Y = North,
\* +X = East): (sin azimuth, cos azimuth, 0)
Compass(cs) == Vec(cs[2], cs[1], 0, 5)

\* C11: for tilt = 90 the normal is the horizontal unit vector along the
\* compass bearing azimuth (0 -> +Y, 90 -> +X, 180 -> -Y, 270 -> -X); for
\* azimuth = 180 it is (0, -1, 0), due south.
C11_VerticalPanelFacesAzimuth ==
  (OrientCall("createPanelMesh") /\ orCall.cfg.tilt = 90) =>
    orCall.mesh.userData.normal = Compass(CosSin5(orCall.cfg.azimuth))

\* C12: for tilt = 0 the normal is (0, 0, 1) for every azimuth, and the
\* irradiance is that of a flat panel, whatever the azimuth.
C12_FlatPanelIgnoresAzimuth ==
  /\ (OrientCall("createPanelMesh") /\ orCall.cfg.tilt = 0)
       => orCall.mesh.userData.normal = Vec(0, 0, 1, 1)
  /\ (OrientCall("calcPanelIrradianceFromOrientation") /\ orCall.cfg.tilt = 0)
       => orCall.irradiance = calcIrradiance(orCall.sunVec, Vec(0, 0, 1, 1))

\* a flat panel with azimuth 37 under a sun 3/5 up in the south
C12_Witness ==
  /\ OrientCall("calcPanelIrradianceFromOrientation")
  /\ orCall.cfg.tilt = 0 /\ orCall.cfg.azimuth = 37
  /\ orCall.sunVec = Vec(0, -4, 3, 5)
  /\ orCall.irradiance = Rat(3, 5)

\* no ray from any sample meets any mesh of the scene
NoOccluders == \A m \in DOMAIN scene : scene[m].dists = {}

\* sin(elevation) of a unit sun vector: its z component
SinElevation(sun) == Rat(sun.z, sun.d)

WithinHalf(a, extentCm) == a.d > 0 /\ Abs(a.n) * 200 <= extentCm * a.d

\* C14: every generated sample, in the panel's local frame, has lateral
\* coordinates within the panel's own width x height, for every panel size
\* and orientation.
C14_SamplesOnPanel ==
  PanelCall =>
    \A k \in 1..Len(shCall.localSamples) :
      /\ WithinHalf(shCall.localSamples[k].x, shCall.panelMesh.geometry.x)
      /\ WithinHalf(shCall.localSamples[k].y, shCall.panelMesh.geometry.y)

\* C15: a call of calculatePanelShadowFactor, calculateShadowFactor or
\* isPointInShadow leaves the buildingMeshes array (length, records, order,
\* the excluded roof included) and every occluder unchanged.
C15_OccludersUnchanged ==
  [][shCall'.done =>
       /\ shCall'.buildingMeshes = shCall.buildingMeshes
       /\ scene' = scene]_vars

\* a call returned whose list of two holds the excluded roof
C15_Witness ==
  /\ PanelCall /\ shCall.excludeMesh # NoMesh
  /\ Len(shCall.buildingMeshes) = 2
  /\ shCall.buildingMeshes[1].mesh = shCall.excludeMesh
  /\ shCall.result # One

\* C16: for every latitude (the poles included) and every sun position (the
\* zenith included) getSunPosition returns a defined elevation in [-90, 90]
\* and a defined azimuth in [0, 360), never 360.
C16_SunPositionDefined ==
  sunCall.done =>
    /\ ~sunCall.elevation.nan
    /\ ~sunCall.azimuth.nan
    /\ ~( /\ sunCall.azimuth.mirrored
          /\ sunCall.azimuth.cosSign = 1 /\ sunCall.azimuth.cosSq = One )

\* the ordinal day of a Gregorian calendar date
RECURSIVE DaysBefore(_, _)
DaysBefore(y, m) == IF m = 1 THEN 0 ELSE DaysBefore(y, m - 1) + DaysInMonth(y, m - 1)

Ordinal(y, m, d) == DaysBefore(y, m) + d

\* C17: the day of year N is the ordinal day of the UTC date in the
\* Gregorian calendar, for every valid date, century years included.
C17_DayOfYearIsOrdinal ==
  sunCall.done => sunCall.N = Ordinal(sunCall.year, sunCall.month, sunCall.day)

\* C18: every building record parseBuildings produces has a footprint of at
\* least 3 coordinate pairs and a strictly positive height, whatever the
\* height, building:height and building:levels tags hold.
C18_BuildingsWellFormed ==
  bldCall.done =>
    \A i \in 1..Len(bldCall.buildings) :
      /\ Len(bldCall.buildings[i].footprint) >= 3
      /\ bldCall.buildings[i].height.d > 0
      /\ bldCall.buildings[i].height.n > 0

\* the requests fetchOSM has issued to the endpoint of index e
RECURSIVE RequestsTo(_, _)
RequestsTo(requests, e) ==
  IF requests = <<>> THEN 0
  ELSE (IF Head(requests) = e THEN 1 ELSE 0) + RequestsTo(Tail(requests), e)

\* the endpoints are tried in list order, none more than maxRetries + 1 times
InOrderWithinRetries ==
  /\ \A i \in 1..Len(fetchCall.requests) :
       /\ fetchCall.requests[i] \in 0..(fetchCall.apiUrls - 1)
       /\ i > 1 => fetchCall.requests[i - 1] <= fetchCall.requests[i]
  /\ \A e \in 0..(fetchCall.apiUrls - 1) :
       RequestsTo(fetchCall.requests, e) <= fetchCall.maxRetries + 1
  /\ Len(fetchCall.requests) <= fetchCall.apiUrls * (fetchCall.maxRetries + 1)

Settled == fetchCall.pc \in {"resolved", "rejected"}

\* C20: fetchOSM settles whenever every fetch settles or is aborted by its
\* timeout, resolving with data or rejecting; when it rejects with the
\* all-endpoints error, every endpoint was requested and has an entry in the
\* error list.
C20_SettlesAndReportsAll ==
  /\ <>Settled
  /\ [](Settled => fetchCall.result \in {"data", "allFailed", "other"})
  /\ [](fetchCall.result = "allFailed" =>
          \A e \in 0..(fetchCall.apiUrls - 1) :
            /\ RequestsTo(fetchCall.requests, e) >= 1
            /\ \E i \in 1..Len(fetchCall.errors) : fetchCall.errors[i].endpoint = e)

\* two mesh records of the same panel (identities are renumbered)
SamePanel(a, b) == [a EXCEPT !.id = 0] = [b EXCEPT !.id = 0]

\* the panels of list after are those of list before, in order, with the
\* panel at index gone
OnlyRemoved(before, after, index) ==
  /\ Len(after) = Len(before) - 1
  /\ \A i \in 1..Len(after) :
       SamePanel(after[i], before[IF i < index THEN i ELSE i + 1])

\* a left click added one panel at the end of the list, on the roof hit
OneAdded(hit) ==
  /\ Len(panelMeshes') = Len(panelMeshes) + 1
  /\ SubSeq(panelMeshes', 1, Len(panelMeshes)) = panelMeshes
  /\ panelMeshes'[Len(panelMeshes')].userData.roofMesh = roofMeshes[hit].mesh

\* C21: a left click adds a panel only when placement mode is active and the
\* pick ray hits a roof, and then exactly one; every click on the place-panel
\* button flips placement mode; a right click removes exactly the panel hit,
\* whatever the placement mode.
C21_ClicksAddAndRemoveOne ==
  [][ /\ \A hit \in 0..Len(roofMeshes) :
           PointerDownLeft(hit) =>
             IF placingPanel /\ hit > 0 THEN OneAdded(hit)
             ELSE panelMeshes' = panelMeshes
      /\ ClickPlacePanel => placingPanel' = ~placingPanel
      /\ \A hit \in 0..Len(panelMeshes) :
           PointerDownRight(hit) =>
             /\ placingPanel' = placingPanel
             /\ IF hit > 0 THEN OnlyRemoved(panelMeshes, panelMeshes', hit)
                ELSE panelMeshes' = panelMeshes ]_vars

\* two different panels placed by left clicks, and placement mode switched
\* off again: a right click on either is possible
C21_Witness ==
  /\ Len(panelMeshes) = 2
  /\ ~placingPanel
  /\ ~SamePanel(panelMeshes[1], panelMeshes[2])

Last(seq) == seq[Len(seq)]

\* the step pushed an error entry of one of the kinds
Pushed(kinds) ==
  /\ Len(fetchCall'.errors) = Len(fetchCall.errors) + 1
  /\ Last(fetchCall'.errors).kind \in kinds

\* the step went on to the next endpoint (or ran out of endpoints) and
\* scheduled no retry
MovedOn ==
  /\ fetchCall'.pc # "backoff"
  /\ \/ fetchCall'.requests = fetchCall.requests /\ fetchCall'.result = "allFailed"
     \/ /\ fetchCall'.requests = Append(fetchCall.requests, fetchCall.endpointIndex + 1)
        /\ fetchCall'.attempt = 0

\* the step issued a further request to the endpoint of the last one
SameEndpointAgain ==
  /\ fetchCall.requests # <<>>
  /\ fetchCall'.requests = Append(fetchCall.requests, Last(fetchCall.requests))

\* the retry discipline of C22, with the errors that may be retried
RetryDiscipline(retried) ==
  /\ Pushed({"status", "timeout"}) => MovedOn
  /\ SameEndpointAgain => fetchCall.pc = "backoff"
  /\ (fetchCall.pc # "backoff" /\ fetchCall'.pc = "backoff") =>
       /\ fetchCall'.error \in retried
       /\ fetchCall'.delay = (2 ^ fetchCall.attempt) * 1000

\* C22: a 502, 504 or 404 response or a request timeout moves on to the next
\* endpoint without a retry; only network-level failures of the request are
\* retried on the same endpoint, after a wait of 2^attempt seconds.
C22_OnlyNetworkFailuresRetried == [][RetryDiscipline({"fetch", "body"})]_vars

\* C23: a 200 response whose JSON has an empty elements list and a remark is
\* reported as the error 'Overpass API returned empty result: <remark>', not
\* as invalid JSON and not by trying the next endpoint.
C23_EmptyResultReported ==
  fetchCall.text.kind = "emptyRemark" =>
    /\ fetchCall.pc = "rejected"
    /\ fetchCall.result = "other"
    /\ fetchCall.error = "empty"

\* C24: an HTTP error status other than 502, 504 and 404 is thrown to the
\* caller at once, with no retry and no later endpoint tried, whatever the
\* body of the response holds.
C24_OtherStatusThrown ==
  [][fetchCall.pc = "errorText" =>
       /\ fetchCall'.pc = "rejected"
       /\ fetchCall'.result = "other"
       /\ fetchCall'.error = "status"
       /\ fetchCall'.requests = fetchCall.requests]_vars

\* C25: the sun direction follows the compass convention of the scene
\* frame: its horizontal part points to +Y for azimuth 0, +X for 90, -Y for
\* 180 and -X for 270, and its z-component is sin(elevation).
C25_SunVecFollowsCompass ==
  dirCall.done =>
    dirCall.sunVec = DirectionOf(CosSin5(dirCall.elevation), CosSin5(dirCall.azimuth))

\* the meshes of list meshes that are in the current scene at position pos
RenderedAt(pg, pos) ==
  Cardinality({ j \in 1..Len(pg.panelMeshes) :
                  pg.panelMeshes[j].inScene /\ pg.panelMeshes[j].position = pos })

PlacedAt(pg, pos) ==
  Cardinality({ i \in 1..Len(pg.placedPanels) : pg.placedPanels[i].position = pos })

\* entry i of the mesh list and of the record list describe the same panel
Paired(pg) ==
  /\ Len(pg.panelMeshes) = Len(pg.placedPanels)
  /\ \A i \in 1..Len(pg.panelMeshes) :
       /\ pg.panelMeshes[i].inScene
       /\ pg.panelMeshes[i].position = pg.placedPanels[i].position

\* C26: when initScene is invoked again after panels have been placed, every
\* placed panel is rendered again exactly once, and afterwards the mesh list
\* and the record list have the same length, entry i of each describing the
\* same panel.
C26_ReinitRestoresPanels ==
  [][page'.inits = page.inits + 1 =>
       /\ \A pos \in Points : RenderedAt(page', pos) = PlacedAt(page', pos)
       /\ Paired(page')]_vars

\* the stored values of the panel are those of an evaluation against sun
EvaluatedAgainst(panel, sun) ==
  /\ panel.userData.evaluated
  /\ panel.userData = Evaluate(panel, sun, panel.userData.roofMesh)

\* C27: at any time every placed panel, a panel placed after an
\* updatePanelIrradiance call included, stores the shadow factor and the
\* irradiance of the most recent sun direction.
C27_PanelsFollowLatestSun ==
  currentSun # NoSun =>
    \A i \in 1..Len(panelMeshes) : EvaluatedAgainst(panelMeshes[i], currentSun)

\* the record pushed on placedPanels by the click that created the mesh
CreatedTogether(record, mesh) ==
  /\ record.position = mesh.position
  /\ record.config.tilt = mesh.userData.tilt
  /\ record.config.azimuth = mesh.userData.azimuth
  /\ roofMeshes[record.roofIdx + 1].mesh = mesh.userData.roofMesh

PairedLists ==
  /\ Len(placedPanels) = Len(panelMeshes)
  /\ \A i \in 1..Len(panelMeshes) : CreatedTogether(placedPanels[i], panelMeshes[i])

\* the records of list after are those of list before with the one at index gone
OnlyRecordRemoved(before, after, index) ==
  /\ Len(after) = Len(before) - 1
  /\ \A i \in 1..Len(after) : after[i] = before[IF i < index THEN i ELSE i + 1]

\* C28: after any sequence of left clicks, right clicks and remove-all,
\* placedPanels and panelMeshes have the same length and placedPanels[i] is
\* the record created with panelMeshes[i]; a right click removes exactly the
\* record of the panel removed.
C28_RecordsFollowMeshes ==
  /\ PairedLists
  /\ [][ /\ PairedLists'
         /\ \A hit \in 1..Len(panelMeshes) :
              PointerDownRight(hit) =>
                OnlyRecordRemoved(placedPanels, placedPanels', hit) ]_vars

\* two panels with different records, so that a record removed or kept in
\* the wrong place would show
C28_Witness ==
  /\ Len(panelMeshes) = 2
  /\ Len(placedPanels) = 2
  /\ placedPanels[1] # placedPanels[2]

\* the mesh selectedPanelIndex designates (the index is 0-based)
SelectedMesh(meshes, selected) == meshes[selected + 1]

ValidSelection ==
  \/ selectedPanelIndex = -1
  \/ selectedPanelIndex \in 0..(Len(panelMeshes) - 1)

\* a right click on the panel at hit: the selection is dropped when that
\* panel was selected, else it stays on the same mesh
SelectionFollows(hit) ==
  IF selectedPanelIndex = hit - 1 THEN selectedPanelIndex' = -1
  ELSE IF selectedPanelIndex >= 0
  THEN /\ selectedPanelIndex' >= 0
       /\ SamePanel(SelectedMesh(panelMeshes', selectedPanelIndex'),
                    SelectedMesh(panelMeshes, selectedPanelIndex))
  ELSE selectedPanelIndex' = -1

\* C29: after any sequence of highlightPanel, clearPanelHighlight, removals,
\* remove-all and updatePanelIrradiance, selectedPanelIndex is -1 or an index
\* of panelMeshes; it stays on the same mesh when another panel is removed
\* and is reset to -1 when the selected panel or all panels are removed
\* (each implication is written by contraposition: no step of the handler
\* leaves the selection otherwise).
C29_SelectionStaysValid ==
  /\ ValidSelection
  /\ [][ /\ ValidSelection'
         /\ \A hit \in 1..Len(panelMeshes) :
              ~SelectionFollows(hit) => ~PointerDownRight(hit)
         /\ selectedPanelIndex' # -1 => ~ClickRemovePanels
         /\ selectedPanelIndex' # selectedPanelIndex =>
              \A s \in Suns : ~updatePanelIrradiance(s)
       ]_vars

\* the second of two different panels is selected: a right click on the
\* first has to move the index, one on the second has to reset it
C29_Witness ==
  /\ Len(panelMeshes) = 2
  /\ selectedPanelIndex = 1
  /\ ~SamePanel(panelMeshes[1], panelMeshes[2])

============================================================================
